---- MODULE Spec2Model ----
(***************************************************************************)
(* Multi-agent execution and handoff engine of tw_ai_agents: the state     *)
(* reducers, the graph builder's name check, the router entry node, the    *)
(* supervisor and case-agent reasoning steps, the human-input tools, the   *)
(* graph runner and the request handler of the server.                     *)
(***************************************************************************)
EXTENDS Integers, Sequences, FiniteSets, TLC

VARIABLES
    rf,       \* reducer under test: which merge function of base_message_type.py
    ra,       \* reducer under test: the current value of the field (a)
    rb,       \* reducer under test: the delta (b)
    rc,       \* reducer under test: the delta merged after rb
    rout,     \* reducer under test: the field after the merges done so far
    rstage,   \* reducer under test: number of merges done so far
    bAgents,  \* graph build: names of the child agents handed to CaseAgent (self.agents)
    bIsCase,  \* graph build: self.is_case_agent (TRUE for CaseAgent, FALSE for ToolAgent)
    bResult,  \* graph build: outcome of get_graph, or NotBuilt before the call
    dState,   \* handoff cycles: State of a case agent's graph
    dBefore,  \* handoff cycles: its message_from_supervisor before the first handoff
    dOpen,    \* handoff cycles: a child agent has been handed to and has not returned
    dCycles,  \* handoff cycles: handoffs whose child has returned
    dbExists, \* checkpoint file: the file at DB_CHECKPOINT_PATH exists
    dbThreads, \* checkpoint file: number of checkpoints it holds per discussion id
    resetOut, \* checkpoint file: what the last reset_state call returned
    cg,       \* case agent graph: one execution of the graph of a case agent
    ctx,      \* react_agent Context: the arguments, the environment and the object built
    store,        \* checkpoint store: the top-level State of the conversation
    pending,      \* checkpoint store: the interrupted node execution, if any
    mid,          \* State of the running agent graph (supervisor or case agent)
    inner,        \* messages of the running react agent inside that graph
    node,         \* top-level node the router dispatched to
    pc,           \* position of the request handler, the runner and the graph
    rstate,       \* run_supervisor: its argument state (input dict or resume command)
    result,       \* run_supervisor: local variable result
    seen,         \* run_supervisor: what each chunk of the call held (history)
    last_message, \* run_supervisor: local variable last_message
    chunk,        \* run_supervisor: the chunk the stream has just yielded
    cont,         \* where the stream goes on after the chunk
    nexec,        \* graph executions started by the current run_supervisor call
    response,     \* outcome of the last request
    nextId,       \* next fresh message / tool-call id
    llmCalls,     \* model calls made in the conversation
    nreq,         \* requests received in the conversation
    parallelFlag, \* bind_tools of the model accepts parallel_tool_calls
    stepCalls,    \* tool calls of the latest supervisor reasoning step
    handed,       \* case agent the latest applied handoff named, "" after go_back
    phase,        \* "live", or "reference" / "replay" for the round trip
    memo,         \* round trip: the model's response to each prompt seen
    answers,      \* round trip: answers of the human still to be replayed
    refFinal      \* round trip: final message of the reference run

redVars == <<rf, ra, rb, rc, rout, rstage>>

buildVars == <<bAgents, bIsCase, bResult>>

cycVars == <<dState, dBefore, dOpen, dCycles>>

dbVars == <<dbExists, dbThreads, resetOut>>

runVars == <<rstate, result, seen, last_message, chunk, cont, nexec>>

graphVars == <<store, pending, mid, inner, node>>

ghostVars == <<stepCalls, handed>>

tripVars == <<phase, memo, answers, refFinal>>

engVars == <<store, pending, mid, inner, node, pc, rstate, result, seen, last_message,
             chunk, cont, nexec, response, nextId, llmCalls, nreq, parallelFlag,
             stepCalls, handed, phase, memo, answers, refFinal>>

\* the variables of the specifications that do not run the engine
childVars == <<cg>>

ctxVars == <<ctx>>

sideVars == <<redVars, buildVars, cycVars, dbVars, childVars, ctxVars>>

vars == <<redVars, buildVars, cycVars, dbVars, childVars, ctxVars, engVars>>

-----------------------------------------------------------------------------
(* Bounds of the model *)

MaxListLen == 2      \* longest field value / delta drawn for the reducers
MaxNameLen == 3      \* longest agent name (in characters) drawn for the graph build
MaxRequests == 2     \* requests of one conversation
MaxLLMCalls == 6     \* model calls of one conversation
MaxExec == 6         \* graph executions of one run_supervisor call
MaxToolTurns == 11    \* model calls of a run whose model only calls tools
MaxCycles == 3       \* handoffs of a case agent to its children
MaxChildTools == 2     \* tool calls of a child agent in one call_agent
MaxCheckpoints == 2  \* checkpoints kept per discussion id
MaxChunks == 2       \* chunks one run_supervisor is fed in a row
MaxEnvLen == 3       \* characters of the value of MAX_SEARCH_RESULTS

-----------------------------------------------------------------------------
(* Generic helpers *)

Range(s) == {s[i] : i \in 1..Len(s)}

SeqsUpTo(S, n) == UNION {[1..k -> S] : k \in 0..n}

NoDup(s) == \A i, j \in 1..Len(s) : i # j => s[i] # s[j]

\* Python's None inside a list of strings
NoneVal == "<None>"

-----------------------------------------------------------------------------
(* State reducers, agents/message_types/base_message_type.py *)

\* ToolMessageInfo.__eq__: all five fields are compared
ToolMessageInfoEq(x, y) ==
    /\ x.name = y.name
    /\ x.content = y.content
    /\ x.tool_call_id = y.tool_call_id
    /\ x.id = y.id
    /\ x.parameters = y.parameters

\* `item in a` for a list of ToolMessageInfo (uses __eq__)
InTools(item, a) == \E i \in 1..Len(a) : ToolMessageInfoEq(a[i], item)

\* custom_add without its membership test (a plain list.extend)
custom_add_NoMembershipTest(a, b) == a \o b

RECURSIVE custom_add(_, _)
custom_add(a, b) ==
    IF b = <<>> THEN a
    ELSE IF ~InTools(Head(b), a)
         THEN custom_add(Append(a, Head(b)), Tail(b))
         ELSE custom_add(a, Tail(b))

\* list.pop() raises IndexError on an empty list; PopError marks that outcome
PopError == <<"IndexError: pop from empty list">>

RECURSIVE custom_add_with_None(_, _)
custom_add_with_None(a, b) ==
    IF a = PopError THEN PopError
    ELSE IF b = <<>> THEN a
    ELSE IF Head(b) \notin Range(a)
         THEN custom_add_with_None(Append(a, Head(b)), Tail(b))
         ELSE IF Head(b) = NoneVal
              THEN (IF a = <<>> THEN PopError
                    ELSE custom_add_with_None(SubSeq(a, 1, Len(a) - 1), Tail(b)))
              ELSE custom_add_with_None(a, Tail(b))

\* variant: a key already set keeps its value
custom_dict_add_FirstWriteWins(a, b) ==
    [k \in DOMAIN a \cup DOMAIN b |-> IF k \in DOMAIN a THEN a[k] ELSE b[k]]

custom_dict_add(a, b) ==
    [k \in (DOMAIN a) \cup (DOMAIN b) |-> IF k \in DOMAIN b THEN b[k] ELSE a[k]]

-----------------------------------------------------------------------------
(* Messages and the State of a graph *)

\* a message of langchain_core: type is "human", "ai" or "tool"; tool_calls
\* is the list of calls of an AI message, tool_call_id the call a ToolMessage
\* answers; NoMessage stands for None
Msg(type, content, name, id, tool_call_id, tool_calls) ==
    [type |-> type, content |-> content, name |-> name, id |-> id,
     tool_call_id |-> tool_call_id, tool_calls |-> tool_calls]

NoMessage == Msg("none", "", "", 0, 0, <<>>)

HumanMessage(content, id) == Msg("human", content, "", id, 0, <<>>)

AIMessage(content, id, tool_calls) == Msg("ai", content, "", id, 0, tool_calls)

ToolMessage(content, name, id, tool_call_id) ==
    Msg("tool", content, name, id, tool_call_id, <<>>)

\* the empty dict
EmptyDict == [k \in {} |-> ""]

\* add_messages, the reducer of State.messages: a message whose id is already
\* in the list replaces the message with that id, any other one is appended
RECURSIVE add_messages(_, _)
add_messages_Appends(left, right) == left \o right

add_messages(left, right) ==
    IF right = <<>> THEN left
    ELSE LET m == Head(right)
             hit == {i \in 1..Len(left) : left[i].id = m.id}
         IN  add_messages(IF hit = {} THEN Append(left, m)
                          ELSE [i \in 1..Len(left) |-> IF i \in hit THEN m ELSE left[i]],
                          Tail(right))

\* State() with its defaults
EmptyState ==
    [messages |-> <<>>, metadata |-> EmptyDict, tools_called |-> <<>>,
     message_from_supervisor |-> <<>>]

\* the framework writes an update into a State: every field of the update is
\* merged into the field of the State by the reducer annotated on the field
MergeState(cur, upd) ==
    [messages |->
        IF "messages" \in DOMAIN upd
        THEN add_messages(cur.messages, upd.messages) ELSE cur.messages,
     metadata |->
        IF "metadata" \in DOMAIN upd
        THEN custom_dict_add(cur.metadata, upd.metadata) ELSE cur.metadata,
     tools_called |->
        IF "tools_called" \in DOMAIN upd
        THEN custom_add(cur.tools_called, upd.tools_called) ELSE cur.tools_called,
     message_from_supervisor |->
        IF "message_from_supervisor" \in DOMAIN upd
        THEN custom_add_with_None(cur.message_from_supervisor,
                                  upd.message_from_supervisor)
        ELSE cur.message_from_supervisor]

-----------------------------------------------------------------------------
(* Names of the graph of get_complete_graph_router_supervisor *)

TW_SUPERVISOR_NAME == "tw_supervisor"

ROUTER_NODE_NAME == "router_node"

\* the case agents of the configuration (caseCategories), names normalized
CaseAgents == {"case_a", "case_b"}

\* the nodes the router can dispatch to
TopLevelNodes == {TW_SUPERVISOR_NAME} \cup CaseAgents

COMPLETE_HANDOFF_STRING_Short == "Handoff the full conversation"

COMPLETE_HANDOFF_STRING == "Handoff the full conversation to a real agent."

\* tool_name of create_handoff_tool_to_router_node for a normalized name
TransferToolName(agent_name) == "transfer_to_" \o agent_name \o "_agent"

TransferTools == {TransferToolName(a) : a \in CaseAgents}

TransferTarget(tool_name) == CHOOSE a \in CaseAgents : TransferToolName(a) = tool_name

GO_BACK_TOOL == "go_back_to_supervisor"

\* variant: go_back_to_supervisor is run as a tool that calls interrupt()
HumanTools_WithGoBack ==
    {"real_human_agent_execute_actions", "handoff_conversation_to_real_agent",
     "go_back_to_supervisor"}

HumanTools == {"real_human_agent_execute_actions", "handoff_conversation_to_real_agent"}

\* no interrupted execution in the checkpoint store
NoPending ==
    [active |-> FALSE, node |-> "", mid |-> EmptyState, inner |-> <<>>,
     call |-> [name |-> "", args |-> "", id |-> 0]]

\* result = None
NoResult ==
    [isNone |-> TRUE, messages |-> <<>>, metadata |-> EmptyDict,
     tools_called |-> <<>>]

NoChunk == [kind |-> "none"]

NoResponse ==
    [status |-> "none", message_type |-> "", message_text |-> "",
     metadata |-> EmptyDict]

NoInput == [kind |-> "none"]

\* the engine before the first request of a conversation
FreshEngine ==
    /\ store = EmptyState
    /\ pending = NoPending
    /\ mid = EmptyState
    /\ inner = <<>>
    /\ node = ""
    /\ pc = "idle"
    /\ rstate = NoInput
    /\ result = NoResult
    /\ seen = <<>>
    /\ last_message = NoMessage
    /\ chunk = NoChunk
    /\ cont = ""
    /\ nexec = 0
    /\ response = NoResponse
    /\ nextId = 1
    /\ llmCalls = 0
    /\ nreq = 0
    /\ stepCalls = <<>>
    /\ handed = ""
    /\ memo = EmptyDict
    /\ answers = <<>>
    /\ refFinal = ""

\* the engine variables while another specification runs
ParkedEngine == FreshEngine /\ parallelFlag = TRUE /\ phase = "parked"

-----------------------------------------------------------------------------
(* The router entry node, agents/router_entrypoint.py *)

initial_router_node(state) == state

\* the target when metadata.next_node is ignored
initial_router_sorting_condition_AlwaysSupervisor(state) == TW_SUPERVISOR_NAME

initial_router_sorting_condition(state) ==
    IF "next_node" \in DOMAIN state.metadata
    THEN state.metadata["next_node"]
    ELSE TW_SUPERVISOR_NAME

-----------------------------------------------------------------------------
(* The tools of the supervisor and of the case agents *)

\* a value handed to interrupt() that is a plain str
StrValue(s) == [type |-> "str", str |-> s]

\* real_human_agent_execute_actions and handoff_conversation_to_real_agent:
\* answer = interrupt(value); return answer.  Without a resume value the call
\* suspends with the value, with one it returns the resume value.
HumanToolRun(name, query, hasResume, resume) ==
    LET value == IF name = "real_human_agent_execute_actions"
                 THEN StrValue(query)
                 ELSE StrValue(COMPLETE_HANDOFF_STRING)
    IN  IF hasResume
        THEN [suspended |-> FALSE, returned |-> resume]
        ELSE [suspended |-> TRUE, value |-> value]

\* variant: next_node takes the name of the tool instead of the agent's
HandoffCommand_NamesTool(agent_name, tool_call_id, id) ==
    [goto |-> ROUTER_NODE_NAME, graph |-> "PARENT",
     update |->
        [messages |->
            <<ToolMessage("Successfully transferred to " \o agent_name,
                          TransferToolName(agent_name), id, tool_call_id)>>,
         metadata |-> [next_node |-> TransferToolName(agent_name)]]]

\* handoff_to_agent of Supervisor.create_handoff_tool_to_router_node
HandoffCommand(agent_name, tool_call_id, id) ==
    [goto |-> ROUTER_NODE_NAME, graph |-> "PARENT",
     update |->
        [messages |->
            <<ToolMessage("Successfully transferred to " \o agent_name,
                          TransferToolName(agent_name), id, tool_call_id)>>,
         metadata |-> [next_node |-> agent_name]]]

\* variant: the Command carries the tool message only
GoBackCommand_MessageOnly(tool_call_id, id) ==
    [goto |-> ROUTER_NODE_NAME, graph |-> "PARENT",
     update |->
        [messages |->
            <<ToolMessage("Successfully transferred back to the supervisor",
                          GO_BACK_TOOL, id, tool_call_id)>>]]

\* handoff_to_agent of CaseAgent.create_go_back_to_supervisor_tools
GoBackCommand(tool_call_id, id) ==
    [goto |-> ROUTER_NODE_NAME, graph |-> "PARENT",
     update |->
        [messages |->
            <<ToolMessage("Successfully transferred back to the supervisor",
                          GO_BACK_TOOL, id, tool_call_id)>>,
         metadata |-> [next_node |-> TW_SUPERVISOR_NAME]]]

\* the Command a handoff tool call returns; call.id is the tool call's id
CommandOf(call, id) ==
    IF call.name = GO_BACK_TOOL
    THEN GoBackCommand(call.id, id)
    ELSE HandoffCommand(TransferTarget(call.name), call.id, id)

\* every Command of the step written into the State, in the order of the calls
RECURSIVE ApplyParentCommands_All(_, _)
ApplyParentCommands_All(cur, cmds) ==
    IF cmds = <<>> THEN cur
    ELSE ApplyParentCommands_All(MergeState(cur, Head(cmds).update), Tail(cmds))

\* the tool node returns the Commands of all calls of the step; a Command
\* with graph=PARENT leaves the react agent at once, so the graph of the
\* agent takes the update of the first one and the others are dropped
ApplyParentCommands(cur, cmds) == MergeState(cur, Head(cmds).update)

-----------------------------------------------------------------------------
(* The responses of the model *)

AnswerContents == {"a1", "a2"}

Queries == {"q1"}

HumanAnswers == {"yes", "no"}

Call(name, args) == [name |-> name, args |-> args]

Answer(content) == [kind |-> "answer", content |-> content, calls |-> <<>>]

ToolCalls(calls) == [kind |-> "tools", content |-> "", calls |-> calls]

\* Supervisor.get_graph binds the tools with parallel_tool_calls=False only
\* when bind_tools has that parameter; otherwise one response of the model
\* may carry several tool calls
SupervisorDecisions(parallel_tool_calls_param) ==
    {Answer(c) : c \in AnswerContents}
    \cup {ToolCalls(<<Call(TransferToolName(a), "")>>) : a \in CaseAgents}
    \cup {ToolCalls(<<Call("handoff_conversation_to_real_agent", "")>>)}
    \cup (IF parallel_tool_calls_param THEN {}
          ELSE {ToolCalls(<<Call(TransferToolName(p[1]), ""),
                            Call(TransferToolName(p[2]), "")>>) :
                    p \in {q \in CaseAgents \X CaseAgents : q[1] # q[2]}})

\* tools of a CaseAgent: the shared human tools and go_back_to_supervisor
CaseAgentDecisions ==
    {Answer(c) : c \in AnswerContents}
    \cup {ToolCalls(<<Call("real_human_agent_execute_actions", q)>>) : q \in Queries}
    \cup {ToolCalls(<<Call("handoff_conversation_to_real_agent", "")>>)}
    \cup {ToolCalls(<<Call(GO_BACK_TOOL, "")>>)}

Decisions(n, parallel_tool_calls_param) ==
    IF n = TW_SUPERVISOR_NAME
    THEN SupervisorDecisions(parallel_tool_calls_param)
    ELSE CaseAgentDecisions

\* a message as the model reads it: ids are not part of the prompt
Anon(m) ==
    [type |-> m.type, content |-> m.content, name |-> m.name,
     tool_calls |-> [j \in 1..Len(m.tool_calls) |->
                        Call(m.tool_calls[j].name, m.tool_calls[j].args)]]

PromptKey(n, messages) == <<n, [i \in 1..Len(messages) |-> Anon(messages[i])]>>

\* the AI message of a response; the calls get the ids id+1, id+2, ...
ResponseMessage(d, id) ==
    AIMessage(d.content, id,
              [j \in 1..Len(d.calls) |->
                  [name |-> d.calls[j].name, args |-> d.calls[j].args, id |-> id + j]])

-----------------------------------------------------------------------------
(* GraphRunner, agents/graph_runner.py *)

AgentMessageModes == {"complete_handoff", "question", "confirmation", "action_request"}

\* InterruptBaseModel.parse_obj: a str is rejected, a dict needs user_message
\* and agent_message_mode; tools_called and destination have defaults
InterruptBaseModel_parse_obj(v) ==
    IF v.type = "str" THEN [ok |-> FALSE]
    ELSE IF /\ {"user_message", "agent_message_mode"} \subseteq DOMAIN v
            /\ v.agent_message_mode \in AgentMessageModes
         THEN [ok |-> TRUE,
               user_message |-> v.user_message,
               agent_message_mode |-> v.agent_message_mode,
               tools_called |-> IF "tools_called" \in DOMAIN v THEN v.tools_called ELSE <<>>,
               destination |-> IF "destination" \in DOMAIN v THEN v.destination ELSE "agent"]
         ELSE [ok |-> FALSE]

\* _process_output_chunk(chunk, {"messages": [], "metadata": {}, "tools_called": []});
\* raised is TRUE when parse_obj raises its ValidationError
_process_output_chunk(c) ==
    IF c.kind = "interrupt"
    THEN LET interrupt_content == InterruptBaseModel_parse_obj(c.value)
         IN  IF ~interrupt_content.ok
             THEN [raised |-> TRUE, result |-> NoResult]
             ELSE [raised |-> FALSE,
                   result |->
                     [isNone |-> FALSE,
                      messages |-> <<AIMessage(interrupt_content.user_message, 0, <<>>)>>,
                      metadata |->
                        [ns |-> c.ns,
                         target_entity |-> interrupt_content.destination,
                         complete_handoff |->
                            (COMPLETE_HANDOFF_STRING = interrupt_content.user_message),
                         agent_message_mode |-> interrupt_content.agent_message_mode],
                      tools_called |-> interrupt_content.tools_called]]
    ELSE [raised |-> FALSE,
          result |->
            [isNone |-> FALSE,
             messages |-> c.values.messages,
             metadata |-> c.values.metadata,
             tools_called |-> c.values.tools_called]]

\* the condition of the while loop of run_supervisor
LoopCondition(m) == m = NoMessage \/ m.type = "tool"

\* _extract_tool_calls: the records whose name does not start with transfer_to_
\* the names of the agents a handoff tool is made for, on any level
SubagentNames == CaseAgents \cup {"read_erp_info", "knowledge_handler"}

\* name.startswith(SUBAGENT_TOOL_NAME_PREFIX), over the tool names in use
StartsWithSubagentPrefix(name) ==
    \E a \in SubagentNames :
       name = TransferToolName(a)

\* isinstance(tool_message_info, ToolMessageInfo)
IsToolMessageInfo(t) ==
    DOMAIN t = {"name", "content", "tool_call_id", "id", "parameters"}

\* the ValueError of _extract_tool_calls
_extract_tool_calls_raises(tool_message_infos) ==
    \E i \in 1..Len(tool_message_infos) : ~IsToolMessageInfo(tool_message_infos[i])

_extract_tool_calls_KeepsAll(tool_message_infos) ==
    [i \in 1..Len(tool_message_infos) |->
        [tool_name |-> tool_message_infos[i].name,
         tool_input |-> tool_message_infos[i].parameters,
         tool_id |-> tool_message_infos[i].tool_call_id]]

_extract_tool_calls(tool_message_infos) ==
    LET kept == SelectSeq(tool_message_infos,
                          LAMBDA t : ~StartsWithSubagentPrefix(t.name))
    IN  [i \in 1..Len(kept) |->
            [tool_name |-> kept[i].name, tool_input |-> kept[i].parameters,
             tool_id |-> kept[i].tool_call_id]]

-----------------------------------------------------------------------------
(* Specification SpecReducers: the reducers applied to drawn inputs *)

BaseRecord ==
    [name |-> "lookup", content |-> "c1", tool_call_id |-> "k1", id |-> "i1",
     parameters |-> "p1"]

\* records that differ from BaseRecord in exactly one of the five fields
ToolRecords ==
    { BaseRecord,
      [BaseRecord EXCEPT !.name = "update"],
      [BaseRecord EXCEPT !.content = "c2"],
      [BaseRecord EXCEPT !.tool_call_id = "k2"],
      [BaseRecord EXCEPT !.id = "i2"],
      [BaseRecord EXCEPT !.parameters = "p2"] }

Directives == {"m1", "m2", NoneVal}

MetaKeys == {"next_node", "discussion_id"}
MetaVals == {"v1", "v2"}
MetaDicts == UNION {[D -> MetaVals] : D \in SUBSET MetaKeys}

ReducerNames == {"custom_add", "custom_add_with_None", "custom_dict_add"}

ApplyReducer(f, a, b) ==
    CASE f = "custom_add" -> custom_add(a, b)
      [] f = "custom_add_with_None" -> custom_add_with_None(a, b)
      [] f = "custom_dict_add" -> custom_dict_add(a, b)

\* the values a field can hold: tools_called and message_from_supervisor are
\* built by their reducers from the empty list, so they hold no entry twice
RedInputs(f) ==
    CASE f = "custom_add" ->
            {s \in SeqsUpTo(ToolRecords, MaxListLen) : NoDup(s)}
            \X SeqsUpTo(ToolRecords, MaxListLen)
      [] f = "custom_add_with_None" ->
            {s \in SeqsUpTo(Directives, MaxListLen) : NoDup(s)}
            \X SeqsUpTo(Directives, MaxListLen)
      [] f = "custom_dict_add" -> MetaDicts \X MetaDicts

\* the delta merged second: a list delta is delivered again as it was (a
\* replayed step), a metadata delta is followed by any other
SecondDeltas(f, b) ==
    IF f = "custom_dict_add" THEN MetaDicts ELSE {b}

ParkedReducers ==
    /\ rf = "custom_add" /\ ra = <<>> /\ rb = <<>> /\ rc = <<>>
    /\ rout = <<>> /\ rstage = 0

ParkedBuild ==
    /\ bAgents = <<>>
    /\ bIsCase = TRUE
    /\ bResult = [status |-> "not_built"]

ParkedCycle ==
    /\ dState = EmptyState
    /\ dBefore = <<>>
    /\ dOpen = FALSE
    /\ dCycles = 0

DiscussionIds == {"d1", "d2", "d3"}

NoReset == [called |-> FALSE]

ParkedDb ==
    /\ dbExists = FALSE
    /\ dbThreads = [d \in DiscussionIds |-> 0]
    /\ resetOut = NoReset

NoCase == [pc |-> "parked"]

ParkedChild == cg = NoCase

NoContext == [stage |-> "parked"]

ParkedContext == ctx = NoContext

InitReducers ==
    /\ ParkedContext
    /\ ParkedBuild
    /\ ParkedCycle
    /\ ParkedDb
    /\ ParkedChild
    /\ ParkedEngine
    /\ rf \in ReducerNames
    /\ \E p \in RedInputs(rf) : ra = p[1] /\ rb = p[2] /\ rout = p[1]
    /\ rc \in SecondDeltas(rf, rb)
    /\ rstage = 0

\* the framework merges a delta into the field with the field's reducer
MergeDelta ==
    /\ rstage < 2
    /\ (rf = "custom_add_with_None") => (rout # PopError)
    /\ rout' = ApplyReducer(rf, rout, IF rstage = 0 THEN rb ELSE rc)
    /\ rstage' = rstage + 1
    /\ UNCHANGED <<rf, ra, rb, rc>>
    /\ UNCHANGED <<buildVars, cycVars, dbVars, childVars, ctxVars>>
    /\ UNCHANGED engVars

NextReducers == MergeDelta

SpecReducers == InitReducers /\ [][NextReducers]_vars

-----------------------------------------------------------------------------
(* Agent names and the handoff tool names made from them *)

\* A name is a sequence of characters; the alphabet has an upper-case letter,
\* its lower-case form, a whitespace character and the underscore.
Chars == {"A", "a", " ", "_"}

IsSpace(c) == c = " "

Lower(c) == IF c = "A" THEN "a" ELSE c

\* str.strip(): drop leading and trailing whitespace
RECURSIVE LStrip(_)
LStrip(s) == IF s # <<>> /\ IsSpace(Head(s)) THEN LStrip(Tail(s)) ELSE s

RECURSIVE RStrip(_)
RStrip(s) ==
    IF s # <<>> /\ IsSpace(s[Len(s)]) THEN RStrip(SubSeq(s, 1, Len(s) - 1)) ELSE s

Strip(s) == RStrip(LStrip(s))

\* WHITESPACE_RE.sub("_", s): every maximal run of whitespace becomes one "_"
RECURSIVE SubWhitespace(_)
SubWhitespace(s) ==
    IF s = <<>> THEN <<>>
    ELSE IF IsSpace(Head(s))
         THEN <<"_">> \o SubWhitespace(LStrip(s))
         ELSE <<Head(s)>> \o SubWhitespace(Tail(s))

LowerAll(s) == [i \in 1..Len(s) |-> Lower(s[i])]

_normalize_agent_name(agent_name) == LowerAll(SubWhitespace(Strip(agent_name)))

SUBAGENT_TOOL_NAME_PREFIX == <<"transfer_to_">>
SUBAGENT_TOOL_NAME_SUFFIX == <<"_agent">>

\* tool_name of create_handoff_tool
HandoffToolName(agent_name) ==
    SUBAGENT_TOOL_NAME_PREFIX \o _normalize_agent_name(agent_name)
        \o SUBAGENT_TOOL_NAME_SUFFIX

GoBackToolName == <<"go_back_to_supervisor">>

-----------------------------------------------------------------------------
(* CaseAgent.get_graph, agents/case_agent.py *)

\* agent.name is None, and the default name of an unnamed compiled graph
NameIsNone == <<"<None>">>
LangGraphName == <<"LangGraph">>

\* the name check of get_graph: the loop over processed_agents with the set
\* agent_names; the result is the error raised, or "ok"
RECURSIVE CheckAgentNames(_, _)
CheckAgentNames(agents, agent_names) ==
    IF agents = <<>> THEN "ok"
    ELSE IF Head(agents) = NameIsNone \/ Head(agents) = LangGraphName
         THEN "ValueError: specify a name"
         ELSE IF Head(agents) \in agent_names
              THEN "ValueError: already exists"
              ELSE CheckAgentNames(Tail(agents), agent_names \cup {Head(agents)})

\* _process_agent: a child that is a CaseAgent or a ToolAgent is compiled
\* with name=self.name, and a graph compiled without a name (None or "") is
\* called "LangGraph"; the name is kept as it is otherwise
_process_agent(name) ==
    IF name = NameIsNone \/ name = <<>> THEN LangGraphName ELSE name

\* names builder.add_node refuses
ReservedNodeNames == {<<"__start__">>, <<"__end__">>}

\* variant: every graph gets the tool
go_back_to_supervisor_tools_Always(is_case_agent) == <<GoBackToolName>>

\* the list go_back_to_supervisor_tools of get_graph
go_back_to_supervisor_tools(is_case_agent) ==
    IF is_case_agent THEN <<GoBackToolName>> ELSE <<>>

get_graph(agents, is_case_agent) ==
    LET processed_agents == [i \in 1..Len(agents) |-> _process_agent(agents[i])]
        check == CheckAgentNames(processed_agents, {})
        handoff_tools ==
            [i \in 1..Len(agents) |-> HandoffToolName(processed_agents[i])]
    IN  IF check # "ok"
        THEN [status |-> check]
        ELSE IF \E i \in 1..Len(agents) : processed_agents[i] \in ReservedNodeNames
        THEN [status |-> "ValueError: node is reserved"]
        ELSE [status |-> "built",
              all_tools |-> handoff_tools \o go_back_to_supervisor_tools(is_case_agent),
              nodes |-> processed_agents]

HumanHandoffToolName == <<"handoff_conversation_to_real_agent">>

\* Supervisor.get_graph: self.tools and one handoff tool per agent
Supervisor_get_graph(agents) ==
    [status |-> "built",
     supervisor_name |-> <<"tw_supervisor">>,
     all_tools |-> <<HumanHandoffToolName>>
                   \o [i \in 1..Len(agents) |-> HandoffToolName(agents[i])],
     nodes |-> agents]

\* get_complete_graph_router_supervisor: the supervisor is compiled first
\* (the name of a handoff tool is computed from agent.name, a missing name
\* has no strip), then one node per case agent is added under agent.name
get_complete_graph_router_supervisor(agents) ==
    IF \E i \in 1..Len(agents) : agents[i] = NameIsNone
    THEN [status |-> "AttributeError"]
    ELSE IF \E i \in 1..Len(agents) : agents[i] \in ReservedNodeNames
    THEN [status |-> "ValueError: node is reserved"]
    ELSE IF \E i, j \in 1..Len(agents) : i # j /\ agents[i] = agents[j]
    THEN [status |-> "ValueError: node already present"]
    ELSE Supervisor_get_graph(agents)

-----------------------------------------------------------------------------
(* Specification SpecBuild: get_graph applied to drawn child names *)

AgentNames ==
    SeqsUpTo(Chars, MaxNameLen) \cup {NameIsNone, LangGraphName}
        \cup ReservedNodeNames

InitBuild ==
    /\ ParkedContext
    /\ ParkedEngine
    /\ ParkedReducers
    /\ ParkedCycle
    /\ ParkedDb
    /\ ParkedChild
    /\ bAgents \in {<<n>> : n \in AgentNames}
                    \cup {<<n, m>> : n \in AgentNames, m \in AgentNames}
    /\ bIsCase \in BOOLEAN
    /\ bResult = [status |-> "not_built"]

Build ==
    /\ bResult.status = "not_built"
    /\ bResult' = get_graph(bAgents, bIsCase)
    /\ UNCHANGED <<bAgents, bIsCase>>
    /\ UNCHANGED <<redVars, cycVars, dbVars, childVars, ctxVars>>
    /\ UNCHANGED engVars

\* the top-level supervisor is built over the same list of agents
BuildSupervisor ==
    /\ bResult.status = "not_built"
    /\ bResult' = get_complete_graph_router_supervisor(bAgents)
    /\ UNCHANGED <<bAgents, bIsCase>>
    /\ UNCHANGED <<redVars, cycVars, dbVars, childVars, ctxVars>>
    /\ UNCHANGED engVars

NextBuild == Build \/ BuildSupervisor

SpecBuild == InitBuild /\ [][NextBuild]_vars

-----------------------------------------------------------------------------
(* Specification SpecCycle: a case agent hands to a child agent with the    *)
(* tool of create_handoff_tool and the child node returns through            *)
(* _process_output; only the fields the two updates name are followed        *)

SupervisorTexts == {"m1", "m2", "m3"}

\* update of the Command the handoff tool of a case agent returns
ChildHandoffUpdate(message_for_subagent) ==
    [message_from_supervisor |-> <<message_for_subagent>>]

\* update the child node returns: _process_output
ChildReturnUpdate ==
    [message_from_supervisor |-> <<NoneVal>>]

InitCycle ==
    /\ ParkedContext
    /\ ParkedReducers
    /\ ParkedBuild
    /\ ParkedDb
    /\ ParkedChild
    /\ ParkedEngine
    /\ dBefore \in {q \in SeqsUpTo(SupervisorTexts, MaxListLen) : NoDup(q)}
    /\ dState = [EmptyState EXCEPT !.message_from_supervisor = dBefore]
    /\ dOpen = FALSE
    /\ dCycles = 0

\* the node that runs is ask_user: the last message is the tool message of
\* the ask_user tool
AskUserRuns ==
    IF dState.messages = <<>> THEN FALSE
    ELSE dState.messages[Len(dState.messages)].name = "ask_user"

\* the react agent of the case agent calls transfer_to_<child>_agent
HandoffToChild ==
    /\ ~dOpen
    /\ dCycles < MaxCycles
    /\ \E m \in SupervisorTexts :
          dState' = MergeState(dState, ChildHandoffUpdate(m))
    /\ dOpen' = TRUE
    /\ UNCHANGED <<dBefore, dCycles>>
    /\ UNCHANGED <<redVars, buildVars, dbVars, engVars, childVars, ctxVars>>

\* call_agent of the child node returns
ChildReturns ==
    /\ dOpen
    /\ ~AskUserRuns
    /\ dState.message_from_supervisor # PopError
    /\ dState' = MergeState(dState, ChildReturnUpdate)
    /\ dOpen' = FALSE
    /\ dCycles' = dCycles + 1
    /\ UNCHANGED dBefore
    /\ UNCHANGED <<redVars, buildVars, dbVars, engVars, childVars, ctxVars>>

\* update of the Command the ask_user tool returns
AskUserHandoffUpdate(message_for_user, tool_call_id, id) ==
    [messages |->
        <<ToolMessage("Successfully transferred to ask_user ## Message from the user "
                          \o message_for_user,
                      "ask_user", id, tool_call_id)>>,
     message_from_supervisor |-> <<message_for_user>>]

\* the messages after the update of _process_output of
\* make_call_dependant_agent: the last two messages of the input are removed
\* and the message to the user and the answer are added
AskUserReturnMessages(messages, user_message, answer, id) ==
    LET n == Len(messages)
        kept == IF n >= 2 THEN SubSeq(messages, 1, n - 2) ELSE <<>>
    IN  kept \o <<AIMessage(user_message, id, <<>>), HumanMessage(answer, id + 1)>>

\* query = state_dict.message_from_supervisor[-1] of AskUserTool.invoke
AskUserQuery(state_dict) ==
    state_dict.message_from_supervisor[Len(state_dict.message_from_supervisor)]

\* the react agent calls ask_user(message_for_user): the ask_user node is
\* the next one and reads its query from the State
AskUserHandoff(message_for_user) ==
    /\ ~dOpen
    /\ dCycles < MaxCycles
    /\ dState' = MergeState(dState,
                   AskUserHandoffUpdate(message_for_user, 10 * dCycles + 1,
                                        10 * dCycles + 2))
    /\ dOpen' = TRUE
    /\ UNCHANGED <<dBefore, dCycles>>
    /\ UNCHANGED <<redVars, buildVars, dbVars, engVars, childVars, ctxVars>>

AskUserHandsOff == \E m \in SupervisorTexts : AskUserHandoff(m)

\* call_agent of the ask_user node returns, after interrupt() gave it the
\* answer of the user: the prompt model words the query for the user
AskUserReturns ==
    /\ dOpen
    /\ dState.message_from_supervisor # PopError
    /\ AskUserRuns
    /\ \E answer \in HumanAnswers :
          dState' = [MergeState(dState, [message_from_supervisor |-> <<NoneVal>>])
                       EXCEPT !.messages =
                          AskUserReturnMessages(dState.messages, "w1", answer,
                                                10 * dCycles + 3)]
    /\ dOpen' = FALSE
    /\ dCycles' = dCycles + 1
    /\ UNCHANGED dBefore
    /\ UNCHANGED <<redVars, buildVars, dbVars, engVars, childVars, ctxVars>>

NextCycle ==
    \/ HandoffToChild
    \/ ChildReturns
    \/ AskUserHandsOff
    \/ AskUserReturns

SpecCycle == InitCycle /\ [][NextCycle]_vars

-----------------------------------------------------------------------------
(* Specification SpecReset: the checkpoint file of the server and            *)
(* reset_state of db/state_manager.py                                        *)

DB_CHECKPOINT_PATH == "checkpoints.sqlite"

RECURSIVE SumOver(_, _)
SumOver(f, D) ==
    IF D = {} THEN 0
    ELSE LET d == CHOOSE e \in D : TRUE IN f[d] + SumOver(f, D \ {d})

\* os.path.getsize: the file grows with the checkpoints it holds
FileSize(threads) == SumOver(threads, DOMAIN threads)

InitReset ==
    /\ ParkedContext
    /\ ParkedReducers
    /\ ParkedBuild
    /\ ParkedCycle
    /\ ParkedEngine
    /\ ParkedDb
    /\ ParkedChild

\* a request of discussion d is processed: SqliteSaver.from_conn_string opens
\* (and creates) the file and the run saves a checkpoint under thread_id d
SaveCheckpoint(d) ==
    /\ dbThreads[d] < MaxCheckpoints
    /\ dbExists' = TRUE
    /\ dbThreads' = [dbThreads EXCEPT ![d] = @ + 1]
    /\ UNCHANGED resetOut
    /\ UNCHANGED <<redVars, buildVars, cycVars, engVars, childVars, ctxVars>>

\* reset_state(discussion_id); NoneVal stands for a call without an id
reset_state(discussion_id) ==
    /\ IF ~dbExists
          THEN /\ resetOut' = [called |-> TRUE, success |-> FALSE,
                               discussion_id |-> discussion_id,
                               message |-> "Database file not found: "
                                           \o DB_CHECKPOINT_PATH]
               /\ UNCHANGED <<dbExists, dbThreads>>
          ELSE /\ dbExists' = FALSE
               /\ dbThreads' = [d \in DiscussionIds |-> 0]
               /\ resetOut' =
                     [called |-> TRUE, success |-> TRUE,
                      discussion_id |-> discussion_id,
                      message |->
                         IF discussion_id # NoneVal
                            THEN "Successfully reset state by deleting the database file"
                                 \o " (requested for discussion ID: "
                                 \o discussion_id \o ")"
                            ELSE "Successfully reset state by deleting the database file",
                      deleted_file |-> DB_CHECKPOINT_PATH,
                      file_size_bytes |-> FileSize(dbThreads)]
    /\ UNCHANGED <<redVars, buildVars, cycVars, engVars, childVars, ctxVars>>

NextReset ==
    \/ \E d \in DiscussionIds : SaveCheckpoint(d)
    \/ \E x \in DiscussionIds \cup {NoneVal} : reset_state(x)

SpecReset == InitReset /\ [][NextReset]_vars

-----------------------------------------------------------------------------
(* One execution of the graph of a case agent with its child agents:       *)
(* CaseAgent.get_graph, create_handoff_tool and _make_call_agent           *)

\* names of the children (tool agents) of the case agent
ChildAgents == {"read_erp_info", "knowledge_handler"}

\* tools of a child: ReadERPInfoTool.get_tools
DomainTools == {"read_address", "read_document_id"}

\* a domain tool returns its result or raises an application error
ToolOutcomes == {"ok", "error"}

MessagesForSubagent == {"m1", "m2"}

\* HumanMessage(last_message.content, from_user=False) of _process_input
FromSupervisorMessage(content, id) ==
    [type |-> "human", content |-> content, name |-> "", id |-> id,
     tool_call_id |-> 0, tool_calls |-> <<>>, from_user |-> FALSE]

\* getattr(message, "from_user", True)
from_user(m) == IF "from_user" \in DOMAIN m THEN m.from_user ELSE TRUE

\* handoff_to_agent of CaseAgent.create_handoff_tool
ChildHandoffCommand(agent_name, message_for_subagent, tool_call_id, id) ==
    [goto |-> agent_name, graph |-> "PARENT",
     update |->
        [messages |->
            <<ToolMessage("Successfully transferred to " \o agent_name
                              \o " ## Message from the supervisor "
                              \o message_for_subagent,
                          TransferToolName(agent_name), id, tool_call_id)>>,
         message_from_supervisor |-> <<message_for_subagent>>]]

\* variant: the tool node lets the error of a tool through
ToolNodeRun_Raises(name, outcome, id, tool_call_id) ==
    [raised |-> outcome = "error",
     message |-> ToolMessage("r1", name, id, tool_call_id)]

\* ToolNode(all_tools) runs a tool call: the result of the tool, or the text
\* of its error, is the content of the tool message
ToolNodeRun(name, outcome, id, tool_call_id) ==
    [raised |-> FALSE,
     message |-> ToolMessage(IF outcome = "error"
                             THEN "Error: tool failed. Please fix your mistakes."
                             ELSE "r1",
                             name, id, tool_call_id)]

\* _process_input of _make_call_agent
_process_input(messages, id) ==
    LET last == messages[Len(messages)]
    IN  IF last.type = "tool"
        THEN [raised |-> "",
              messages |-> <<FromSupervisorMessage(last.content, id)>>,
              other_messages |-> messages]
        ELSE [raised |-> "ValueError: Expected last message to be a ToolMessage"]

\* _process_output of _make_call_agent; output is what agent.invoke returned
_process_output(output, old_messages) ==
    LET all_messages == old_messages \o output.messages
        n == Len(all_messages)
        marks == {i \in 2..n : all_messages[i].type = "human"
                                  /\ ~from_user(all_messages[i])}
        i == CHOOSE k \in marks : \A j \in marks : j <= k
        found == marks # {} /\ all_messages[i - 1].type = "tool"
        last_tool_idx == i - 1
        tool_idx == {k \in last_tool_idx..n : all_messages[k].type = "tool"}
        no_attr == {k \in tool_idx : k > 1 /\ all_messages[k - 1].type # "ai"}
        no_call == {k \in tool_idx : k > 1 /\ all_messages[k - 1].type = "ai"
                                       /\ all_messages[k - 1].tool_calls = <<>>}
        ToolMessageInfo(k) ==
            [content |-> all_messages[k].content, name |-> all_messages[k].name,
             tool_call_id |-> all_messages[k].tool_call_id,
             id |-> all_messages[k].id,
             parameters |-> IF k > 1 THEN all_messages[k - 1].tool_calls[1].args
                            ELSE ""]
        picked == SelectSeq([k \in 1..n |-> k], LAMBDA k : k \in tool_idx)
        new_tools_called == [j \in 1..Len(picked) |-> ToolMessageInfo(picked[j])]
    IN  IF ~found
        THEN [raised |-> "ValueError: Could not find appropriate ToolMessage to update"]
        ELSE IF no_attr # {}
        THEN [raised |-> "AttributeError: tool_calls"]
        ELSE IF no_call # {}
        THEN [raised |-> "IndexError"]
        ELSE [raised |-> "",
              update |->
                [messages |-> <<[all_messages[last_tool_idx]
                                   EXCEPT !.content = all_messages[n].content]>>,
                 metadata |-> output.metadata,
                 tools_called |-> new_tools_called \o output.tools_called,
                 message_from_supervisor |-> <<NoneVal>>]]

\* the State the graph of the case agent is called with: the message of the
\* user, after the handoff of the supervisor or straight from the router
CaseInputs ==
    {[EmptyState EXCEPT !.messages = <<HumanMessage("u1", 1)>>,
                        !.metadata = [discussion_id |-> "d1"]],
     [EmptyState EXCEPT !.messages =
                           <<HumanMessage("u1", 1),
                             ToolMessage("Successfully transferred to case_a",
                                         TransferToolName("case_a"), 3, 2)>>,
                        !.metadata = [discussion_id |-> "d1",
                                      next_node |-> "case_a"]]}

InitChild ==
    /\ ParkedContext
    /\ ParkedReducers
    /\ ParkedBuild
    /\ ParkedCycle
    /\ ParkedDb
    /\ ParkedEngine
    /\ \E s \in CaseInputs :
         cg = [pc |-> "agent", state |-> s, child |-> "", input |-> <<>>,
               old_messages |-> <<>>, output |-> <<>>, outcome |-> "",
               raised |-> "", interrupt |-> StrValue(""), turns |-> 0,
               nextId |-> 10]

ChildFrame == UNCHANGED <<redVars, buildVars, cycVars, dbVars, engVars, ctxVars>>

\* the react agent of the case agent calls the handoff tool of a child: the
\* Command leaves the react agent, its update is written into the State of
\* the graph and the node of the child is the next one
CaseAgentHandsOff ==
    /\ cg.pc = "agent"
    /\ cg.turns = 0
    /\ \E c \in ChildAgents, m \in MessagesForSubagent :
         LET cmd == ChildHandoffCommand(c, m, cg.nextId + 1, cg.nextId + 2)
         IN  cg' = [cg EXCEPT !.pc = "call_agent", !.child = cmd.goto,
                              !.state = MergeState(cg.state, cmd.update),
                              !.nextId = cg.nextId + 3]
    /\ ChildFrame

\* call_agent up to agent.invoke: _process_input
ChildStarts ==
    /\ cg.pc = "call_agent"
    /\ LET inp == _process_input(cg.state.messages, cg.nextId)
       IN  IF inp.raised # ""
           THEN cg' = [cg EXCEPT !.pc = "raised", !.raised = inp.raised]
           ELSE cg' = [cg EXCEPT !.pc = "child", !.input = inp.messages,
                                 !.output = inp.messages,
                                 !.old_messages = inp.other_messages,
                                 !.nextId = cg.nextId + 1]
    /\ ChildFrame

\* a reasoning step of the child that calls one of its tools; the tool node
\* appends the tool message and the loop of the child goes on
ChildCallsTool ==
    /\ cg.pc = "child"
    /\ cg.turns < MaxChildTools
    /\ \E t \in DomainTools, o \in ToolOutcomes :
         LET ai == AIMessage("", cg.nextId,
                             <<[name |-> t, args |-> "e1", id |-> cg.nextId + 1]>>)
             run == ToolNodeRun(t, o, cg.nextId + 2, cg.nextId + 1)
         IN  IF run.raised
             THEN cg' = [cg EXCEPT !.pc = "raised", !.raised = "tool error",
                                   !.outcome = o, !.turns = cg.turns + 1]
             ELSE cg' = [cg EXCEPT !.output = cg.output \o <<ai, run.message>>,
                                   !.outcome = o, !.turns = cg.turns + 1,
                                   !.nextId = cg.nextId + 3]
    /\ ChildFrame

\* the child answers without a tool call: agent.invoke returns, call_agent
\* runs _process_output, the update is written into the State and the edge
\* from the child leads to the react agent of the case agent
ChildAnswers ==
    /\ cg.pc = "child"
    /\ LET ai == AIMessage("c1", cg.nextId, <<>>)
           output == [messages |-> Append(cg.output, ai),
                      metadata |-> cg.state.metadata,
                      tools_called |-> cg.state.tools_called]
           out == _process_output(output, cg.old_messages)
       IN  IF out.raised # ""
           THEN cg' = [cg EXCEPT !.pc = "raised", !.raised = out.raised,
                                 !.output = output.messages,
                                 !.nextId = cg.nextId + 1]
           ELSE cg' = [cg EXCEPT !.pc = "agent",
                                 !.state = MergeState(cg.state, out.update),
                                 !.output = output.messages,
                                 !.nextId = cg.nextId + 1]
    /\ ChildFrame

\* the react agent of the case agent calls a human-input tool: interrupt()
\* leaves the graph with the value the tool handed to it
CaseAgentCallsHuman ==
    /\ cg.pc = "agent"
    /\ \E name \in HumanTools, q \in Queries :
         cg' = [cg EXCEPT !.pc = "suspended",
                          !.interrupt = HumanToolRun(name, q, FALSE, "").value,
                          !.outcome = name \o ":" \o q]
    /\ ChildFrame

\* the react agent of the case agent answers: its messages are written into
\* the State and the edge to END ends the graph
CaseAgentAnswers ==
    /\ cg.pc = "agent"
    /\ \E c \in AnswerContents :
         cg' = [cg EXCEPT !.pc = "end",
                          !.state = MergeState(cg.state,
                                       [messages |-> <<AIMessage(c, cg.nextId, <<>>)>>]),
                          !.nextId = cg.nextId + 1]
    /\ ChildFrame

NextChild ==
    \/ CaseAgentHandsOff
    \/ ChildStarts
    \/ ChildCallsTool
    \/ ChildAnswers
    \/ CaseAgentCallsHuman
    \/ CaseAgentAnswers

SpecChild == InitChild /\ [][NextChild]_vars

-----------------------------------------------------------------------------
(* call_agent of _make_call_agent over the messages a parent may hold and   *)
(* the messages agent.invoke of a child may return                          *)

ToolCall(name, args, id) == [name |-> name, args |-> args, id |-> id]

\* the tool message of handoff_to_agent in the State of the parent
HandoffToolMessage(m) ==
    ChildHandoffCommand("read_erp_info", m, 4, 5).update.messages[1]

\* the messages of the State call_agent is given: the handoff tool message
\* after the message of the user, with or without the AI message that called
\* the handoff tool (alone, or after another call of the same AI message),
\* the tool message alone, and a State whose last message is an AI message
ParentMessages ==
    UNION {
      { <<HumanMessage("u1", 1), HandoffToolMessage(m)>>,
        <<HumanMessage("u1", 1),
          AIMessage("", 2, <<ToolCall(TransferToolName("read_erp_info"), m, 4)>>),
          HandoffToolMessage(m)>>,
        <<HumanMessage("u1", 1),
          AIMessage("", 2, <<ToolCall("read_address", "e1", 3),
                             ToolCall(TransferToolName("read_erp_info"), m, 4)>>),
          HandoffToolMessage(m)>>,
        <<HandoffToolMessage(m)>>,
        <<HumanMessage("u1", 1), AIMessage(m, 2, <<>>)>> } :
      m \in MessagesForSubagent }

ToolArgs == {"e1", "e2"}

\* the messages the react agent of a child adds to its input: an answer, a
\* tool call and an answer, one AI message with two tool calls and an answer
ChildRuns ==
    UNION {
      { <<AIMessage(c, 9, <<>>)>>,
        <<AIMessage("", 6, <<ToolCall("read_address", e, 7)>>),
          ToolMessage("r1", "read_address", 8, 7),
          AIMessage(c, 9, <<>>)>>,
        <<AIMessage("", 6, <<ToolCall("read_address", e, 7),
                             ToolCall("read_document_id", "e3", 10)>>),
          ToolMessage("r1", "read_address", 8, 7),
          ToolMessage("r2", "read_document_id", 11, 10),
          AIMessage(c, 9, <<>>)>> } :
      c \in AnswerContents, e \in ToolArgs }

InitReturn ==
    /\ ParkedContext
    /\ ParkedReducers
    /\ ParkedBuild
    /\ ParkedCycle
    /\ ParkedDb
    /\ ParkedEngine
    /\ \E pm \in ParentMessages,
          tc \in {<<>>, <<[BaseRecord EXCEPT !.tool_call_id = 30, !.id = 31]>>} :
         cg = [pc |-> "call_agent",
               state |-> [EmptyState EXCEPT !.messages = pm,
                                            !.tools_called = tc,
                                            !.metadata = [discussion_id |-> "d1"]],
               child |-> "read_erp_info", input |-> <<>>,
               old_messages |-> <<>>, output |-> <<>>, outcome |-> "",
               raised |-> "", interrupt |-> StrValue(""), turns |-> 0,
               nextId |-> 20]

\* output = agent.invoke(state); return _process_output(output, old_messages)
ChildInvokeReturns ==
    /\ cg.pc = "child"
    /\ \E run \in ChildRuns :
         LET output == [messages |-> cg.input \o run,
                        metadata |-> cg.state.metadata,
                        tools_called |-> cg.state.tools_called]
             out == _process_output(output, cg.old_messages)
         IN  IF out.raised # ""
             THEN cg' = [cg EXCEPT !.pc = "raised", !.raised = out.raised,
                                   !.output = output.messages]
             ELSE cg' = [cg EXCEPT !.pc = "agent",
                                   !.state = MergeState(cg.state, out.update),
                                   !.output = output.messages]
    /\ ChildFrame

NextReturn == ChildStarts \/ ChildInvokeReturns

SpecReturn == InitReturn /\ [][NextReturn]_vars

-----------------------------------------------------------------------------
(* Context of src/react_agent/context.py: the dataclass and __post_init__   *)
(* applied to drawn constructor arguments and environments; the fields      *)
(* followed are model (str), max_search_results (int), enable_debug (bool)  *)

ContextFields == {"model", "max_search_results", "enable_debug"}

\* the default of each field
ContextDefaults ==
    [model |-> "anthropic/claude-3-5-sonnet-20240620",
     max_search_results |-> 10,
     enable_debug |-> FALSE]

\* get_type_hints(self.__class__)
type_hints ==
    [model |-> "str", max_search_results |-> "int", enable_debug |-> "bool"]

\* a keyword argument of the constructor: left out, or given with a value
NotPassed == [passed |-> FALSE]

Passed(v) == [passed |-> TRUE, value |-> v]

\* os.environ.get(f.name.upper(), None)
EnvUnset == [set |-> FALSE]

EnvSet(v) == [set |-> TRUE, value |-> v]

Digits == {"0", "1", "2", "3", "4", "5", "6", "7", "8", "9"}

DigitValue(c) ==
    CASE c = "0" -> 0 [] c = "1" -> 1 [] c = "2" -> 2 [] c = "3" -> 3
      [] c = "4" -> 4 [] c = "5" -> 5 [] c = "6" -> 6 [] c = "7" -> 7
      [] c = "8" -> 8 [] c = "9" -> 9

\* the digits of an integer literal: single underscores between digits only
IsDigitPart(b) ==
    /\ b # <<>>
    /\ \A i \in 1..Len(b) : b[i] \in Digits \cup {"_"}
    /\ b[1] \in Digits
    /\ b[Len(b)] \in Digits
    /\ \A i \in 1..(Len(b) - 1) : ~(b[i] = "_" /\ b[i + 1] = "_")

RECURSIVE DigitPartValue(_, _)
DigitPartValue(b, acc) ==
    IF b = <<>> THEN acc
    ELSE IF Head(b) = "_" THEN DigitPartValue(Tail(b), acc)
    ELSE DigitPartValue(Tail(b), 10 * acc + DigitValue(Head(b)))

\* int(env_value) of a str: whitespace around the literal is dropped, one
\* sign may come first; anything else raises ValueError (ok is FALSE)
int(env_value) ==
    LET t == Strip(env_value)
        signed == IF t = <<>> THEN FALSE ELSE t[1] \in {"+", "-"}
        b == IF signed THEN Tail(t) ELSE t
    IN  IF IsDigitPart(b)
        THEN [ok |-> TRUE,
              value |-> IF signed /\ t[1] = "-" THEN 0 - DigitPartValue(b, 0)
                        ELSE DigitPartValue(b, 0)]
        ELSE [ok |-> FALSE]

\* env_value.lower(), over the letters in use
str_lower(v) ==
    [i \in 1..Len(v) |->
        CASE v[i] = "O" -> "o" [] v[i] = "N" -> "n" [] OTHER -> v[i]]

\* variant: a value that is no integer gives 0
converted_value_ZeroOnFailure(target_type, env_value, current_value) ==
    CASE target_type = "int" ->
            IF int(env_value).ok THEN int(env_value).value ELSE 0
      [] target_type = "bool" ->
            str_lower(env_value) \in
               {<<"t", "r", "u", "e">>, <<"1">>, <<"y", "e", "s">>, <<"o", "n">>}
      [] OTHER -> env_value

\* the try block of __post_init__: the conversion to the type of the field;
\* a ValueError keeps the current value
converted_value(target_type, env_value, current_value) ==
    CASE target_type = "int" ->
            IF int(env_value).ok THEN int(env_value).value ELSE current_value
      [] target_type = "bool" ->
            str_lower(env_value) \in
               {<<"t", "r", "u", "e">>, <<"1">>, <<"y", "e", "s">>, <<"o", "n">>}
      [] OTHER -> env_value

\* the dataclass __init__ followed by __post_init__
Context(kwargs, environ) ==
    [f \in ContextFields |->
        LET current_value == IF kwargs[f].passed THEN kwargs[f].value
                             ELSE ContextDefaults[f]
            env_value == environ[f]
        IN  IF current_value = ContextDefaults[f] /\ env_value.set
            THEN converted_value(type_hints[f], env_value.value, current_value)
            ELSE current_value]

EnvChars == {"0", "2", "-", "+", " ", "_", "x"}

\* the keyword arguments a caller gives
ContextArgs ==
    [model : {NotPassed, Passed("explicit/model"), Passed(ContextDefaults.model)},
     max_search_results : {NotPassed, Passed(5), Passed(10)},
     enable_debug : {NotPassed, Passed(FALSE)}]

\* the environment: MODEL, MAX_SEARCH_RESULTS, ENABLE_DEBUG
Environments ==
    [model : {EnvUnset, EnvSet("env/model")},
     max_search_results :
        {EnvUnset} \cup {EnvSet(v) : v \in SeqsUpTo(EnvChars, MaxEnvLen)},
     enable_debug : {EnvUnset, EnvSet(<<"O", "N">>)}]

InitContext ==
    /\ ParkedReducers
    /\ ParkedBuild
    /\ ParkedCycle
    /\ ParkedDb
    /\ ParkedChild
    /\ ParkedEngine
    /\ \E k \in ContextArgs, e \in Environments :
          ctx = [stage |-> "args", kwargs |-> k, environ |-> e,
                 context |-> ContextDefaults]

\* Context(**kwargs)
Construct ==
    /\ ctx.stage = "args"
    /\ ctx' = [ctx EXCEPT !.stage = "built",
                          !.context = Context(ctx.kwargs, ctx.environ)]
    /\ UNCHANGED <<redVars, buildVars, cycVars, dbVars, childVars>>
    /\ UNCHANGED engVars

NextContext == Construct

SpecContext == InitContext /\ [][NextContext]_vars

-----------------------------------------------------------------------------
(* process_agent_response of server.py, run_supervisor of GraphRunner and   *)
(* the compiled graph of get_complete_graph_router_supervisor               *)

DISCUSSION_ID == "d1"

UserTexts == {"u1"}

\* "remaining_steps" of the initial_state of a user message
REMAINING_STEPS == 10

Req(message_type, message_text) ==
    [message_type |-> message_type, message_text |-> message_text]

\* the requests a client can send next; in the round trip the conversation
\* is one user message, then the answers of the human as resume requests
RequestInputs ==
    IF phase = "live"
    THEN {Req("user", t) : t \in UserTexts}
         \cup {Req("agent", t) : t \in HumanAnswers}
         \cup {Req("other", t) : t \in UserTexts}
    ELSE IF nreq = 0 THEN {Req("user", t) : t \in UserTexts}
    ELSE IF phase = "replay" /\ pending.active /\ answers # <<>>
         THEN {Req("agent", Head(answers))}
         ELSE {}

\* initial_state with a user message that also names the supervisor as next node
InitialState_ResetsNextNode(req, id) ==
    IF req.message_type = "agent"
    THEN [kind |-> "resume", resume |-> req.message_text]
    ELSE [kind |-> "input",
          messages |-> <<HumanMessage(req.message_text, id)>>,
          metadata |-> [discussion_id |-> DISCUSSION_ID,
                        next_node |-> TW_SUPERVISOR_NAME],
          remaining_steps |-> REMAINING_STEPS]

\* initial_state of run_supervisor_with_graph for message_type agent / user
InitialState(req, id) ==
    IF req.message_type = "agent"
    THEN [kind |-> "resume", resume |-> req.message_text]
    ELSE [kind |-> "input",
          messages |-> <<HumanMessage(req.message_text, id)>>,
          metadata |-> [discussion_id |-> DISCUSSION_ID],
          remaining_steps |-> REMAINING_STEPS]

\* the request ends with an exception
ErrorResponse(e) ==
    [status |-> "error", message_type |-> "", message_text |-> e,
     metadata |-> EmptyDict]

\* the model answers the prompts of a round trip as a function of the prompt
LLMChoices ==
    IF phase \in {"reference", "replay"} /\ PromptKey(node, inner) \in DOMAIN memo
    THEN {memo[PromptKey(node, inner)]}
    ELSE IF phase = "tools_only"
    THEN {d \in Decisions(node, parallelFlag) : d.kind = "tools"}
    ELSE Decisions(node, parallelFlag)

\* how far the model follows one run_supervisor call and one conversation
ExecBound == IF phase = "tools_only" THEN MaxToolTurns ELSE MaxExec

LLMBound == IF phase = "tools_only" THEN MaxToolTurns ELSE MaxLLMCalls

Remember(d) ==
    IF phase \in {"live", "tools_only"} THEN memo
    ELSE [k \in (DOMAIN memo) \cup {PromptKey(node, inner)} |->
            IF k = PromptKey(node, inner) THEN d ELSE memo[k]]

\* every message_type takes one of the two branches that build initial_state
AcceptedMessageType_Any(message_type) == TRUE

\* the message types for which run_supervisor_with_graph builds initial_state
AcceptedMessageType(message_type) == message_type \in {"user", "agent"}

\* process_agent_response up to the call of run_supervisor
process_agent_response(req) ==
    /\ pc = "idle"
    /\ nreq < MaxRequests
    /\ IF AcceptedMessageType(req.message_type)
       THEN /\ rstate' = InitialState(req, nextId)
            /\ pc' = "loop"
            /\ response' = NoResponse
       ELSE /\ rstate' = NoInput
            /\ pc' = "idle"
            /\ response' = ErrorResponse("ValueError: Invalid message type")
    /\ nextId' = IF req.message_type = "user" THEN nextId + 1 ELSE nextId
    /\ answers' = IF phase = "replay" /\ req.message_type = "agent"
                  THEN Tail(answers) ELSE answers
    /\ nreq' = nreq + 1
    /\ result' = NoResult
    /\ seen' = <<>>
    /\ last_message' = NoMessage
    /\ nexec' = 0
    /\ UNCHANGED <<chunk, cont, llmCalls, parallelFlag, stepCalls, handed, phase,
                   memo, refFinal>>
    /\ UNCHANGED graphVars
    /\ UNCHANGED sideVars

Request == \E req \in RequestInputs : process_agent_response(req)

\* the while loop of run_supervisor goes round: self.graph.stream(state, config)
StreamStart ==
    /\ pc = "loop"
    /\ LoopCondition(last_message)
    /\ nexec < ExecBound
    /\ nexec' = nexec + 1
    /\ CASE rstate.kind = "input" ->
              \* new input: the graph starts at START with the input merged in
              /\ store' = MergeState(store, [messages |-> rstate.messages,
                                             metadata |-> rstate.metadata])
              /\ pending' = NoPending
              /\ pc' = "router"
              /\ UNCHANGED <<mid, inner, node, nextId>>
         [] rstate.kind = "resume" /\ pending.active ->
              \* the interrupted tool call runs again and interrupt() returns
              \* the resume value
              LET run == HumanToolRun(pending.call.name, pending.call.args,
                                      TRUE, rstate.resume)
              IN  /\ node' = pending.node
                  /\ mid' = pending.mid
                  /\ inner' = Append(pending.inner,
                                     ToolMessage(run.returned, pending.call.name,
                                                 nextId, pending.call.id))
                  /\ pending' = NoPending
                  /\ nextId' = nextId + 1
                  /\ pc' = "agent"
                  /\ UNCHANGED store
         [] rstate.kind = "resume" /\ ~pending.active ->
              \* nothing to resume: the stream yields no chunk; on a thread
              \* without any checkpoint the framework may reject the command
              /\ \/ /\ pc' = "loop"
                    /\ UNCHANGED <<rstate, response>>
                 \/ /\ store = EmptyState
                    /\ pc' = "idle"
                    /\ rstate' = NoInput
                    /\ response' = ErrorResponse("Error")
              /\ UNCHANGED <<graphVars, nextId>>
    /\ (rstate.kind = "input" \/ pending.active) => UNCHANGED <<rstate, response>>
    /\ UNCHANGED <<result, seen, last_message, chunk, cont, llmCalls,
                   nreq, parallelFlag, stepCalls, handed>>
    /\ UNCHANGED tripVars
    /\ UNCHANGED sideVars

\* the node router_node and its conditional edge
RouterNode ==
    /\ pc = "router"
    /\ LET after == MergeState(store, initial_router_node(store))
           target == initial_router_sorting_condition(after)
       IN  /\ store' = after
           /\ chunk' = [kind |-> "update", node |-> ROUTER_NODE_NAME, values |-> after]
           /\ node' = target
           /\ mid' = MergeState(EmptyState, after)
           /\ inner' = MergeState(EmptyState, after).messages
           /\ cont' = IF target \in TopLevelNodes THEN "agent" ELSE "fail"
    /\ pc' = "chunk"
    /\ UNCHANGED <<pending, rstate, result, seen, last_message, nexec, response, nextId,
                   llmCalls, nreq, parallelFlag, stepCalls, handed>>
    /\ UNCHANGED tripVars
    /\ UNCHANGED sideVars

\* the body of the for loop of run_supervisor for one chunk
ProcessChunk ==
    /\ pc = "chunk"
    /\ LET out == _process_output_chunk(chunk)
       IN  IF out.raised
           THEN /\ response' = ErrorResponse("ValidationError: InterruptBaseModel")
                /\ pc' = "idle"
                /\ result' = NoResult
                /\ seen' = <<>>
                /\ last_message' = NoMessage
                /\ rstate' = NoInput
           ELSE IF out.result.messages = <<>> \/ cont = "fail"
           THEN /\ response' = ErrorResponse("Error")
                /\ pc' = "idle"
                /\ result' = NoResult
                /\ seen' = <<>>
                /\ last_message' = NoMessage
                /\ rstate' = NoInput
           ELSE /\ result' = out.result
                /\ seen' = Append(seen, out.result)
                /\ last_message' = out.result.messages[Len(out.result.messages)]
                /\ pc' = cont
                /\ UNCHANGED <<response, rstate>>
    /\ chunk' = NoChunk
    /\ cont' = ""
    /\ UNCHANGED <<nexec, nextId, llmCalls, nreq, parallelFlag, stepCalls, handed>>
    /\ UNCHANGED graphVars
    /\ UNCHANGED tripVars
    /\ UNCHANGED sideVars

\* a reasoning step of the react agent of the running node that ends the
\* agent: the response has no tool call, the graph of the agent and then the
\* node of the top-level graph return
AgentAnswers ==
    /\ pc = "agent"
    /\ llmCalls < LLMBound
    /\ \E d \in LLMChoices :
         /\ d.kind = "answer"
         /\ LET ai == ResponseMessage(d, nextId)
                out == [mid EXCEPT !.messages = Append(inner, ai)]
                mid2 == MergeState(mid, out)
            IN  /\ store' = MergeState(store, mid2)
                /\ chunk' = [kind |-> "update", node |-> node, values |-> mid2]
         /\ memo' = Remember(d)
    /\ mid' = EmptyState
    /\ inner' = <<>>
    /\ cont' = "loop"
    /\ pc' = "chunk"
    /\ nextId' = nextId + 1
    /\ llmCalls' = llmCalls + 1
    /\ stepCalls' = <<>>
    /\ UNCHANGED <<pending, node, rstate, result, seen, last_message, nexec, response,
                   nreq, parallelFlag, handed, phase, answers, refFinal>>
    /\ UNCHANGED sideVars

\* a reasoning step whose tool calls are handoff tools (transfer_to_..., or
\* go_back_to_supervisor): the tools return Commands for the parent graph,
\* the graph of the agent takes the update, runs its router_node and ends
AgentHandsOff ==
    /\ pc = "agent"
    /\ llmCalls < LLMBound
    /\ \E d \in LLMChoices :
         /\ d.kind = "tools"
         /\ \A j \in 1..Len(d.calls) : d.calls[j].name \in TransferTools \cup {GO_BACK_TOOL}
         /\ LET ai == ResponseMessage(d, nextId)
                n == Len(d.calls)
                cmds == [j \in 1..n |-> CommandOf(ai.tool_calls[j], nextId + n + j)]
                mid2 == ApplyParentCommands(mid, cmds)
                mid3 == MergeState(mid2, initial_router_node(mid2))
            IN  /\ store' = MergeState(store, mid3)
                /\ chunk' = [kind |-> "update", node |-> node, values |-> mid3]
                /\ nextId' = nextId + 2 * n + 1
         /\ stepCalls' = d.calls
         /\ handed' = IF d.calls[1].name = GO_BACK_TOOL THEN ""
                      ELSE TransferTarget(d.calls[1].name)
         /\ memo' = Remember(d)
    /\ mid' = EmptyState
    /\ inner' = <<>>
    /\ cont' = "loop"
    /\ pc' = "chunk"
    /\ llmCalls' = llmCalls + 1
    /\ UNCHANGED <<pending, node, rstate, result, seen, last_message, nexec, response,
                   nreq, parallelFlag, phase, answers, refFinal>>
    /\ UNCHANGED sideVars

\* a reasoning step that calls a human-input tool: the tool calls interrupt(),
\* the execution is saved in the checkpoint store and the stream yields the
\* interrupt chunk.  In the reference run of the round trip the tool returns
\* the answer of the human at once.
AgentCallsHuman ==
    /\ pc = "agent"
    /\ llmCalls < LLMBound
    /\ \E d \in LLMChoices :
         /\ d.kind = "tools"
         /\ Len(d.calls) = 1
         /\ d.calls[1].name \in HumanTools
         /\ LET ai == ResponseMessage(d, nextId)
                call == ai.tool_calls[1]
            IN  IF phase = "reference"
                THEN \E v \in HumanAnswers :
                       LET run == HumanToolRun(call.name, call.args, TRUE, v)
                       IN  /\ inner' = inner \o <<ai, ToolMessage(run.returned, call.name,
                                                                  nextId + 2, call.id)>>
                           /\ answers' = Append(answers, v)
                           /\ pc' = "agent"
                           /\ UNCHANGED <<pending, chunk, cont, mid>>
                ELSE LET run == HumanToolRun(call.name, call.args, FALSE, "")
                     IN  /\ pending' = [active |-> TRUE, node |-> node, mid |-> mid,
                                        inner |-> Append(inner, ai), call |-> call]
                         /\ chunk' = [kind |-> "interrupt", value |-> run.value,
                                      ns |-> node]
                         /\ cont' = "loop"
                         /\ pc' = "chunk"
                         /\ mid' = EmptyState
                         /\ inner' = <<>>
                         /\ UNCHANGED answers
         /\ memo' = Remember(d)
    /\ nextId' = nextId + 3
    /\ llmCalls' = llmCalls + 1
    /\ stepCalls' = <<>>
    /\ UNCHANGED <<store, node, rstate, result, seen, last_message, nexec, response,
                   nreq, parallelFlag, handed, phase, refFinal>>
    /\ UNCHANGED sideVars

\* the while loop of run_supervisor ends, run_supervisor returns and
\* process_agent_response builds the AgentResponseModel
RunnerReturn ==
    /\ pc = "loop"
    /\ ~LoopCondition(last_message)
    /\ response' =
          IF _extract_tool_calls_raises(result.tools_called)
          THEN ErrorResponse("ValueError: Expected ToolMessageInfo object")
          ELSE
          [status |-> "ok",
           message_type |->
              IF "target_entity" \in DOMAIN result.metadata
              THEN result.metadata["target_entity"] ELSE "user",
           message_text |-> last_message.content,
           metadata |->
              custom_dict_add(result.metadata,
                  [tool_calls |-> _extract_tool_calls(result.tools_called),
                   discussion_id |-> DISCUSSION_ID])]
    /\ pc' = "idle"
    /\ rstate' = NoInput
    /\ result' = NoResult
    /\ seen' = <<>>
    /\ last_message' = NoMessage
    /\ UNCHANGED <<chunk, cont, nexec, nextId, llmCalls, nreq, parallelFlag,
                   stepCalls, handed>>
    /\ UNCHANGED graphVars
    /\ UNCHANGED tripVars
    /\ UNCHANGED sideVars

Init ==
    /\ ParkedContext
    /\ ParkedReducers
    /\ ParkedBuild
    /\ ParkedCycle
    /\ ParkedDb
    /\ ParkedChild
    /\ FreshEngine
    /\ parallelFlag \in BOOLEAN
    /\ phase = "live"

Next ==
    \/ Request
    \/ StreamStart
    \/ RouterNode
    \/ ProcessChunk
    \/ AgentAnswers
    \/ AgentHandsOff
    \/ AgentCallsHuman
    \/ RunnerReturn

Spec == Init /\ [][Next]_vars

-----------------------------------------------------------------------------
(* Specification SpecToolsOnly: one user message, handled with a model       *)
(* whose every response is a tool call                                       *)

InitToolsOnly ==
    /\ ParkedContext
    /\ ParkedReducers
    /\ ParkedBuild
    /\ ParkedCycle
    /\ ParkedDb
    /\ ParkedChild
    /\ FreshEngine
    /\ parallelFlag \in BOOLEAN
    /\ phase = "tools_only"

NextToolsOnly ==
    \/ Request
    \/ StreamStart
    \/ RouterNode
    \/ ProcessChunk
    \/ AgentHandsOff
    \/ AgentCallsHuman

SpecToolsOnly == InitToolsOnly /\ [][NextToolsOnly]_vars

-----------------------------------------------------------------------------
(* Specification SpecRoundTrip: a conversation run once with human-input    *)
(* tools that return the answer at once (the reference), then run again     *)
(* from an empty checkpoint store with the tools suspending and the same    *)
(* answers sent as resume requests                                          *)

InitRoundTrip ==
    /\ ParkedContext
    /\ ParkedReducers
    /\ ParkedBuild
    /\ ParkedCycle
    /\ ParkedDb
    /\ ParkedChild
    /\ FreshEngine
    /\ parallelFlag \in BOOLEAN
    /\ phase = "reference"

\* the reference run has returned: start the conversation again
Reload ==
    /\ phase = "reference"
    /\ pc = "idle"
    /\ response.status = "ok"
    /\ answers # <<>>
    /\ phase' = "replay"
    /\ refFinal' = response.message_text
    /\ store' = EmptyState
    /\ response' = NoResponse
    /\ nextId' = 1
    /\ llmCalls' = 0
    /\ nreq' = 0
    /\ nexec' = 0
    /\ stepCalls' = <<>>
    /\ handed' = ""
    /\ UNCHANGED <<pending, mid, inner, node, pc, rstate, result, seen, last_message,
                   chunk, cont, parallelFlag, memo, answers>>
    /\ UNCHANGED sideVars

NextRoundTrip == Next \/ Reload

SpecRoundTrip == InitRoundTrip /\ [][NextRoundTrip]_vars

-----------------------------------------------------------------------------
(* GraphRunner.run_supervisor over the chunks of any graph                 *)

\* a ToolMessageInfo as a graph step reports it
ChunkRecord(name, k) ==
    [name |-> name, content |-> "c1", tool_call_id |-> k, id |-> k,
     parameters |-> "p1"]

\* an element of tools_called that is a plain dict, not a ToolMessageInfo
PlainDict == [tool_name |-> "read_address"]

\* the tools_called lists of a step
ChunkToolsCalled ==
    { <<>>,
      <<ChunkRecord("read_address", "k1")>>,
      <<ChunkRecord("transfer_to_case_a_agent", "k1"),
        ChunkRecord("read_address", "k2")>>,
      <<ChunkRecord("read_address", "k1"),
        ChunkRecord("transfer_to_read_erp_info_agent", "k2"),
        ChunkRecord("go_back_to_supervisor", "k3")>>,
      <<ChunkRecord("transfer_to_knowledge_handler_agent", "k1"),
        ChunkRecord("transfer_to_case_b_agent", "k2")>>,
      <<ChunkRecord("read_address", "k1"), PlainDict>> }

\* the messages of a step
ChunkMessages ==
    { <<>>,
      <<HumanMessage("u1", 1)>>,
      <<HumanMessage("u1", 1), AIMessage("a1", 2, <<>>)>>,
      <<HumanMessage("u1", 1), ToolMessage("r1", "read_address", 2, 1)>> }

\* the values graph.stream gives for the update of one node
UpdateChunks ==
    { [kind |-> "update", node |-> TW_SUPERVISOR_NAME,
       values |-> [messages |-> m, metadata |-> EmptyDict, tools_called |-> t]] :
         m \in ChunkMessages, t \in ChunkToolsCalled }

\* the values a tool may give to interrupt()
InterruptPayloads ==
    {StrValue(u) : u \in {"Handoff the full conversation to a real agent.", "q1"}}
    \cup
    {[type |-> "dict", user_message |-> u] :
        u \in {"Handoff the full conversation to a real agent.", "q1"}}
    \cup
    {[type |-> "dict", user_message |-> u, agent_message_mode |-> m,
      destination |-> d] :
        u \in {"Handoff the full conversation to a real agent.", "q1",
               "Handoff the full conversation"},
        m \in {"complete_handoff", "question", "unknown"},
        d \in {"agent", "user"}}

InterruptChunks ==
    { [kind |-> "interrupt", value |-> v, ns |-> TW_SUPERVISOR_NAME] :
         v \in InterruptPayloads }

ChunkInputs == UpdateChunks \cup InterruptChunks

InitChunks ==
    /\ ParkedContext
    /\ ParkedReducers
    /\ ParkedBuild
    /\ ParkedCycle
    /\ ParkedDb
    /\ ParkedChild
    /\ store = EmptyState
    /\ pending = NoPending
    /\ mid = EmptyState
    /\ inner = <<>>
    /\ node = ""
    /\ pc = "stream"
    /\ rstate = NoInput
    /\ result = NoResult
    /\ seen = <<>>
    /\ last_message = NoMessage
    /\ chunk = NoChunk
    /\ cont = ""
    /\ nexec = 1
    /\ response = NoResponse
    /\ nextId = 1
    /\ llmCalls = 0
    /\ nreq = 1
    /\ stepCalls = <<>>
    /\ handed = ""
    /\ memo = EmptyDict
    /\ answers = <<>>
    /\ refFinal = ""
    /\ parallelFlag = TRUE
    /\ phase = "chunks"

\* for chunk in self.graph.stream(state, config): the next chunk of the stream
StreamYields ==
    /\ pc = "stream"
    /\ Len(seen) < MaxChunks
    /\ \E c \in ChunkInputs, last \in BOOLEAN :
          /\ chunk' = c
          /\ cont' = IF last THEN "loop" ELSE "stream"
    /\ pc' = "chunk"
    /\ UNCHANGED <<rstate, result, seen, last_message, nexec, response, nextId,
                   llmCalls, nreq, parallelFlag, stepCalls, handed>>
    /\ UNCHANGED graphVars
    /\ UNCHANGED tripVars
    /\ UNCHANGED sideVars

\* while last_message is None or isinstance(last_message, ToolMessage): the
\* graph is streamed again
StreamAgain ==
    /\ pc = "loop"
    /\ LoopCondition(last_message)
    /\ Len(seen) < MaxChunks
    /\ pc' = "stream"
    /\ nexec' = nexec + 1
    /\ UNCHANGED <<rstate, result, seen, last_message, chunk, cont, response,
                   nextId, llmCalls, nreq, parallelFlag, stepCalls, handed>>
    /\ UNCHANGED graphVars
    /\ UNCHANGED tripVars
    /\ UNCHANGED sideVars

NextChunks ==
    \/ StreamYields
    \/ ProcessChunk
    \/ StreamAgain
    \/ RunnerReturn

SpecChunks == InitChunks /\ [][NextChunks]_vars

-----------------------------------------------------------------------------
(* Claims on the reducers (checked under SpecReducers) *)

\* C9: merging the same delta into tools_called twice gives the same list as
\* merging it once, and a record counts as present only when all five of its
\* fields are equal to those of a record of the list: after one merge the
\* list holds exactly the old records and the records of the delta.
C9_IdempotentToolsCalled ==
    (rf = "custom_add") =>
        /\ (rstage = 2) => (rout = custom_add(ra, rb))
        /\ (rstage >= 1) =>
              /\ Range(rout) = Range(ra) \cup Range(rb)
              /\ NoDup(rout)
              /\ SubSeq(rout, 1, Len(ra)) = ra

\* C9 witness: a delta with a record that was not yet in the list has been
\* merged twice
C9_Witness ==
    /\ rf = "custom_add"
    /\ rstage = 2
    /\ ra # <<>>
    /\ Len(rout) > Len(ra)
    /\ \E i \in 1..Len(rb) : rb[i] \in Range(ra)

\* C10: merging the delta [None] into a non-empty message_from_supervisor
\* removes its last entry and adds nothing, whatever the list holds.
C10_NullPopsPrevious ==
    (/\ rf = "custom_add_with_None"
     /\ rb = <<NoneVal>>
     /\ ra # <<>>
     /\ rstage = 1)
        => (rout = SubSeq(ra, 1, Len(ra) - 1))

\* C12: merging the delta [None] into an empty message_from_supervisor either
\* raises a defined error or leaves the list empty; it never leaves the list
\* in another state.
C12_NullOnEmpty ==
    (/\ rf = "custom_add_with_None"
     /\ ra = <<>>
     /\ rb = <<NoneVal>>
     /\ rstage = 1)
        => (rout = PopError \/ rout = <<>>)

\* C13: merging the same delta into message_from_supervisor twice gives the
\* same list as merging it once, for every delta over strings and None.
C13_IdempotentDirectives ==
    (rf = "custom_add_with_None" /\ rstage = 2)
        => (rout = custom_add_with_None(ra, rb))

\* C14: metadata is merged key by key and the last write wins: after one
\* delta every key of the delta holds the delta's value and every other key
\* keeps its value; after two deltas in sequence a key both carry holds the
\* value of the delta merged last.
C14_LastWriteWins ==
    (rf = "custom_dict_add") =>
        /\ (rstage >= 1) => (DOMAIN rout \subseteq DOMAIN ra \cup DOMAIN rb \cup DOMAIN rc)
        /\ (rstage = 1) =>
              /\ DOMAIN rout = DOMAIN ra \cup DOMAIN rb
              /\ \A k \in DOMAIN rb : rout[k] = rb[k]
              /\ \A k \in DOMAIN ra \ DOMAIN rb : rout[k] = ra[k]
        /\ (rstage = 2) =>
              /\ DOMAIN rout = DOMAIN ra \cup DOMAIN rb \cup DOMAIN rc
              /\ \A k \in DOMAIN rc : rout[k] = rc[k]
              /\ \A k \in DOMAIN rb \ DOMAIN rc : rout[k] = rb[k]
              /\ \A k \in DOMAIN ra \ (DOMAIN rb \cup DOMAIN rc) : rout[k] = ra[k]

\* C14 witness: two deltas that disagree on a key the dictionary already held
\* have been merged, and another key of the dictionary is in neither
C14_Witness ==
    /\ rf = "custom_dict_add"
    /\ rstage = 2
    /\ \E k \in DOMAIN ra \cap DOMAIN rb \cap DOMAIN rc :
          rb[k] # rc[k] /\ ra[k] # rc[k]
    /\ \E k \in DOMAIN ra : k \notin DOMAIN rb \cup DOMAIN rc

-----------------------------------------------------------------------------
(* Claims on the handoff cycles (checked under SpecCycle) *)

\* C11: message_from_supervisor never holds None, and once every handoff has
\* been answered by the child's return it is again the list it was before the
\* first handoff, also when two handoffs carried the same text.
C11_DirectiveConsumed ==
    /\ NoneVal \notin Range(dState.message_from_supervisor)
    /\ (~dOpen) => (dState.message_from_supervisor = dBefore)

\* C38: the query the ask_user node reads, the last entry of
\* message_from_supervisor, is the message_for_user of the ask_user call that
\* handed over to it, whatever handoffs came before.
C38_AskUserReadsItsQuestion ==
    [][\A m \in SupervisorTexts :
          AskUserHandoff(m) => AskUserQuery(dState') = m]_vars

-----------------------------------------------------------------------------
(* Claims on Context (checked under SpecContext) *)

\* C32: a field given to the constructor keeps the value given, whatever the
\* environment holds; the environment is used only for a field left out.
C32_PassedValueKept ==
    (ctx.stage = "built") =>
        \A f \in ContextFields :
           /\ ctx.kwargs[f].passed => ctx.context[f] = ctx.kwargs[f].value
           /\ (~ctx.kwargs[f].passed /\ ~ctx.environ[f].set)
                 => ctx.context[f] = ContextDefaults[f]

\* the text is a decimal literal without sign, spaces or underscores
PlainDecimal(v) == v # <<>> /\ \A i \in 1..Len(v) : v[i] \in Digits

\* C33: with max_search_results left out and MAX_SEARCH_RESULTS set, the
\* field is the integer the text denotes, and 10 for a text that denotes
\* none; it is an integer in both cases and the construction ends.
C33_IntegerFromEnvironment ==
    (/\ ctx.stage = "built"
     /\ ~ctx.kwargs.max_search_results.passed
     /\ ctx.environ.max_search_results.set) =>
        LET v == ctx.environ.max_search_results.value
            r == ctx.context.max_search_results
        IN  /\ r \in Int
            /\ r = IF int(v).ok THEN int(v).value ELSE 10
            /\ PlainDecimal(v) => int(v).ok
            /\ v = <<"2", "0">> => r = 20
            /\ v = <<"2", "0", "2">> => r = 202
            /\ v = <<"-", "2">> => r = 0 - 2
            /\ (\E i \in 1..Len(v) : v[i] = "x") => r = 10
            /\ v = <<>> => r = 10

\* MAX_SEARCH_RESULTS holds a text that is no integer and the field is 10
C33_Witness ==
    /\ ctx.stage = "built"
    /\ ~ctx.kwargs.max_search_results.passed
    /\ ctx.environ.max_search_results = EnvSet(<<"2", "x">>)
    /\ ctx.context.max_search_results = 10

-----------------------------------------------------------------------------
(* Claims on the checkpoint file (checked under SpecReset) *)

\* C20: a reset called with the id of a conversation leaves the checkpoints
\* of every other conversation as they were; only a reset called without an
\* id may remove them all.
C20_ResetScoped ==
    [][\A x \in DiscussionIds :
          reset_state(x) =>
             \A y \in DiscussionIds \ {x} : dbThreads'[y] = dbThreads[y]]_vars

\* C21: whatever is done for a conversation A, a request that saves a
\* checkpoint or a reset, in any order with what is done for a conversation
\* B, the checkpoints saved for B stay as they are.
C21_ConversationIsolation ==
    [][\A a \in DiscussionIds :
          (SaveCheckpoint(a) \/ reset_state(a))
            => \A b \in DiscussionIds \ {a} :
                  dbThreads[b] > 0 => dbThreads'[b] = dbThreads[b]]_vars

-----------------------------------------------------------------------------
(* Claims on the graph build (checked under SpecBuild) *)

\* C5: a graph whose sibling nodes have names that are equal after
\* normalization is never built: get_graph fails with an error.
C5_NormalizedNamesUnique ==
    (bResult.status = "built") =>
        \A i, j \in 1..Len(bAgents) :
            (i # j) =>
                (_normalize_agent_name(bAgents[i]) # _normalize_agent_name(bAgents[j]))

\* the graph was built by get_graph of a CaseAgent or of a ToolAgent
BuiltByGetGraph ==
    bResult.status = "built" /\ "supervisor_name" \notin DOMAIN bResult

HasGoBackTool ==
    \E i \in 1..Len(bResult.all_tools) : bResult.all_tools[i] = GoBackToolName

\* C25 as stated: every graph of a case agent and of a tool agent has the
\* tool go_back_to_supervisor, and the graph of the supervisor has not.
C25_GoBackEverywhere ==
    (bResult.status = "built") =>
        (HasGoBackTool <=> BuiltByGetGraph)

\* C25: the graph of a case agent has the tool go_back_to_supervisor; the
\* graph of a tool agent and the graph of the supervisor have not.
C25_GoBackOfCaseAgents ==
    (bResult.status = "built") =>
        (HasGoBackTool <=> (BuiltByGetGraph /\ bIsCase))

\* C25 witness: a tool agent with two children has been built, with its two
\* handoff tools and nothing else
C25_Witness ==
    /\ BuiltByGetGraph
    /\ ~bIsCase
    /\ Len(bAgents) = 2
    /\ Len(bResult.all_tools) = 2

\* C30: no graph is built over a child that has no name, the empty name or
\* a name reserved for the entry and the exit of a graph.
C30_NamesValidated ==
    (\E i \in 1..Len(bAgents) :
        bAgents[i] \in {NameIsNone, <<>>} \cup ReservedNodeNames)
      => (bResult.status # "built")

-----------------------------------------------------------------------------
(* Claims on the graph of a case agent (checked under SpecChild) *)

\* C24: when the node of a child finishes, the react agent of the parent is
\* the next node: the execution neither ends there nor goes to another child.
C24_ChildReturnsToParent ==
    [][(cg.pc = "child" /\ cg'.pc # "child")
          => (cg'.pc = "agent" /\ cg'.raised = "")]_vars

\* the latest step of the child called a tool that raised its error
ToolFailed ==
    /\ cg.pc \in {"child", "raised"}
    /\ cg.turns > 0
    /\ cg.outcome = "error"

C34_OneUpdatedMessage ==
    [][ /\ (cg.pc = "child" /\ cg'.pc # "child") =>
              LET before == cg.state.messages
                  after == cg'.state.messages
                  n == Len(before)
              IN  /\ cg'.pc = "agent"
                  /\ Len(after) = n
                  /\ \A i \in 1..(n - 1) : after[i] = before[i]
                  /\ after[n] = [before[n] EXCEPT
                                   !.content = cg'.output[Len(cg'.output)].content]
        /\ (cg.pc = "call_agent" /\ cg'.pc # "call_agent"
              /\ cg.state.messages[Len(cg.state.messages)].type # "tool") =>
              cg'.raised = "ValueError: Expected last message to be a ToolMessage"
      ]_vars

-----------------------------------------------------------------------------
(* Claims on call_agent over any messages (checked under SpecReturn) *)

\* the tool calls of the AI messages of a list
CallsOf(messages) ==
    UNION {{messages[i].tool_calls[j] : j \in 1..Len(messages[i].tool_calls)} :
              i \in 1..Len(messages)}

\* the message before the handoff tool message is an AI message with a call
HandoffCallKept ==
    LET old == cg.old_messages
    IN  /\ Len(old) >= 2
        /\ old[Len(old) - 1].type = "ai"
        /\ old[Len(old) - 1].tool_calls # <<>>

\* C39: every record the return of a child adds to tools_called has, as
\* parameters, the arguments of the tool call whose id is the tool_call_id of
\* the record; a child whose AI message carries several tool calls, followed
\* by their tool messages, gets its records as well.
C39_ParametersOfTheCall ==
    [][(cg.pc = "child" /\ cg'.pc # "child") =>
          LET all_messages == cg.old_messages \o cg'.output
              tc == cg'.state.tools_called
          IN  /\ cg'.pc = "agent" =>
                    \A k \in 1..Len(tc) : \A c \in CallsOf(all_messages) :
                       c.id = tc[k].tool_call_id => tc[k].parameters = c.args
              /\ HandoffCallKept => cg'.pc = "agent"]_vars

-----------------------------------------------------------------------------
(* Claims on the round trip (checked under SpecRoundTrip) *)

\* run_supervisor streams a resume command again although nothing is left to
\* resume: the stream yields no chunk, last_message stays a ToolMessage and
\* the while loop never ends
Spins ==
    /\ pc = "loop"
    /\ rstate.kind = "resume"
    /\ ~pending.active
    /\ LoopCondition(last_message)

\* C1: a run that suspends at a human-input tool, is saved in the checkpoint
\* store and is resumed with the answer v by a fresh request produces a final
\* message, and it is the final message of the run in which the tool
\* returned v at once.
C1_RoundTrip ==
    (phase = "replay") =>
        /\ ~Spins
        /\ (response.status = "ok") => (response.message_text = refFinal)

-----------------------------------------------------------------------------
(* Claims on the engine (checked under Spec) *)

\* C2: after a handoff of the supervisor to case agent X took effect, the
\* conversation keeps metadata.next_node = X, every execution of an agent
\* node (after the router, or by a resume) runs X, and a suspended execution
\* in the store is one of X, until go_back_to_supervisor; a new user message
\* does not change metadata.next_node.
C2_ResumeLandsOnNode ==
    (handed # "") =>
        /\ "next_node" \in DOMAIN store.metadata
        /\ store.metadata["next_node"] = handed
        /\ (pc = "agent" \/ (pc = "chunk" /\ cont = "agent")) => (node = handed)
        /\ pending.active => (pending.node = handed)

\* C2 witness: a later request of the conversation runs the case agent the
\* supervisor handed off to
C2_Witness ==
    /\ handed \in CaseAgents
    /\ nreq >= 2
    /\ pc = "agent"
    /\ node = handed

C6_RetryCeiling == (rstate.kind = "input") => (nexec <= 5)

\* a field of the value of an interrupt, when the value has the field
PayloadField(v, f) == IF f \in DOMAIN v THEN v[f] ELSE "<missing>"

\* C7: when the stream yields an interrupt chunk, run_supervisor leaves its
\* loop with a result whose last message is the payload's user_message and
\* whose metadata has the payload's destination as target_entity and the
\* payload's agent_message_mode.
C7_StopOnSuspension ==
    [][(pc = "chunk" /\ chunk.kind = "interrupt") =>
          /\ pc' = "loop"
          /\ ~LoopCondition(last_message')
          /\ last_message'.content = PayloadField(chunk.value, "user_message")
          /\ result'.metadata["target_entity"] = PayloadField(chunk.value, "destination")
          /\ result'.metadata["agent_message_mode"] =
                PayloadField(chunk.value, "agent_message_mode")]_vars

\* C8: the value of every interrupt chunk has the fields user_message,
\* agent_message_mode, destination and tools_called and is accepted by
\* InterruptBaseModel.parse_obj, so that run_supervisor does not fail on it.
C8_SuspensionCarriesPayload ==
    /\ (pc = "chunk" /\ chunk.kind = "interrupt") =>
          /\ {"user_message", "agent_message_mode", "destination", "tools_called"}
                \subseteq DOMAIN chunk.value
          /\ InterruptBaseModel_parse_obj(chunk.value).ok
    /\ response.message_text # "ValidationError: InterruptBaseModel"

\* C16: a request with message_type "agent" for a conversation that has a
\* checkpoint and no suspended execution leaves the checkpoint store as it
\* was and is rejected or ignored: when the stream of the resume command has
\* yielded nothing, the handler ends the request instead of streaming the
\* command again.
C16_ResumeWithoutSuspension ==
    [][(/\ pc = "loop"
        /\ rstate.kind = "resume"
        /\ store # EmptyState
        /\ ~pending.active
        /\ last_message = NoMessage)
          => /\ store' = store
             /\ pending' = pending
             /\ (nexec >= 1) => (pc' = "idle")]_vars

\* C17: a request whose message_type is neither "user" nor "agent" ends with
\* an error before any step of the graph runs and leaves the checkpoint store
\* and the state of the graph as they were.
C17_FailFast ==
    [][\A req \in RequestInputs :
          (req.message_type \notin {"user", "agent"} /\ process_agent_response(req))
             => /\ response'.status = "error"
                /\ pc' = "idle"
                /\ UNCHANGED <<store, pending, mid, inner, node>>
                /\ llmCalls' = llmCalls
                /\ nexec' = 0]_vars

\* C17 witness: a request with another message_type has been rejected in a
\* conversation that already has messages in the checkpoint store
C17_Witness ==
    /\ response = ErrorResponse("ValueError: Invalid message type")
    /\ pc = "idle"
    /\ Len(store.messages) >= 2

\* what the chunks of a run hold together: messages in the order of the
\* chunks, tools_called merged by custom_add, metadata by custom_dict_add
RECURSIVE Aggregate(_)
Aggregate(chunks) ==
    IF chunks = <<>>
    THEN [messages |-> <<>>, tools_called |-> <<>>, metadata |-> EmptyDict]
    ELSE LET r == Aggregate(SubSeq(chunks, 1, Len(chunks) - 1))
             c == chunks[Len(chunks)]
         IN  [messages |-> r.messages \o c.messages,
              tools_called |-> custom_add(r.tools_called, c.tools_called),
              metadata |-> custom_dict_add(r.metadata, c.metadata)]

\* C18: when the loop of run_supervisor ends, result holds the messages of
\* all chunks of the run in their order, their tools_called merged without
\* repetition and their metadata merged with the last write winning.
C18_RunnerAggregates ==
    (pc = "loop" /\ ~LoopCondition(last_message)) =>
        /\ result.messages = Aggregate(seen).messages
        /\ result.tools_called = Aggregate(seen).tools_called
        /\ result.metadata = Aggregate(seen).metadata

\* C19: the Command of every handoff tool of the top-level graph names a
\* node of that graph, metadata.next_node of the conversation is, when set,
\* the supervisor or a case agent, and the router dispatches to such a node.
C19_HandoffTargetsRegistered ==
    /\ \A t \in TransferTools \cup {GO_BACK_TOOL} :
          CommandOf([name |-> t, args |-> "", id |-> 0], 0).update.metadata["next_node"]
             \in TopLevelNodes
    /\ ("next_node" \in DOMAIN store.metadata)
          => (store.metadata["next_node"] \in TopLevelNodes)
    /\ cont # "fail"
    /\ node \in TopLevelNodes \cup {""}

\* C19 witness: after a handoff to a case agent and go_back_to_supervisor the
\* router has dispatched to the supervisor named by metadata.next_node
C19_Witness ==
    /\ pc = "agent"
    /\ node = TW_SUPERVISOR_NAME
    /\ "next_node" \in DOMAIN store.metadata
    /\ store.metadata["next_node"] = TW_SUPERVISOR_NAME
    /\ \E i \in 1..Len(store.messages) : store.messages[i].name \in TransferTools

\* the last reasoning step of an agent called go_back_to_supervisor
WentBack == stepCalls # <<>> /\ stepCalls[1].name = GO_BACK_TOOL

\* C26: a step of a case agent that calls go_back_to_supervisor ends the
\* agent (its node returns and its chunk is streamed), writes the name of
\* the supervisor into metadata.next_node and leaves every other metadata
\* key as it was; the router of the next execution then dispatches to the
\* supervisor.
C26_GoBackToSupervisor ==
    [][ /\ (pc = "agent" /\ WentBack' /\ pc' = "chunk" /\ chunk'.kind = "update")
           => /\ node \in CaseAgents
              /\ inner' = <<>> /\ mid' = EmptyState /\ cont' = "loop"
              /\ store'.metadata["next_node"] = TW_SUPERVISOR_NAME
              /\ DOMAIN store'.metadata = DOMAIN store.metadata \cup {"next_node"}
              /\ \A k \in DOMAIN store.metadata \ {"next_node"} :
                    store'.metadata[k] = store.metadata[k]
        /\ (pc = "router" /\ WentBack /\ pc' = "chunk")
           => node' = TW_SUPERVISOR_NAME
      ]_vars

\* C26 witness: a case agent went back and the router of the next execution
\* has dispatched to the supervisor
C26_Witness ==
    /\ WentBack
    /\ pc = "chunk"
    /\ chunk.kind = "update"
    /\ chunk.node = ROUTER_NODE_NAME
    /\ node = TW_SUPERVISOR_NAME
    /\ "discussion_id" \in DOMAIN store.metadata

\* C22: every request ends with a response that carries the discussion id;
\* no request ends with an exception.
C22_NoExceptionEscapes ==
    (pc = "idle" /\ response # NoResponse) =>
        /\ response.status = "ok"
        /\ "discussion_id" \in DOMAIN response.metadata
        /\ response.metadata["discussion_id"] = DISCUSSION_ID

\* C23: the run that suspends answers with the message_type of the
\* interrupt's destination ("agent" when the interrupt names none), the run
\* that completes answers with message_type "user", whatever the earlier
\* runs of the conversation did.
C23_MessageTypeFollowsOutcome ==
    [][(pc # "idle" /\ pc' = "idle") =>
          IF pending'.active
          THEN response'.status = "ok" /\ response'.message_type = "agent"
          ELSE response'.status = "ok" => response'.message_type = "user"]_vars

\* C27: when run_supervisor returns, every tool message of the conversation
\* has its record in tools_called.
C27_ToolCallsRecorded ==
    [][(pc = "loop" /\ pc' = "idle" /\ response'.status = "ok") =>
          \A i \in 1..Len(store.messages) :
             store.messages[i].type = "tool" =>
                \E j \in 1..Len(store.tools_called) :
                   store.tools_called[j].tool_call_id = store.messages[i].tool_call_id]_vars

\* the tools that ask a human
SuspendingToolNames ==
    {"real_human_agent_execute_actions", "handoff_conversation_to_real_agent"}

\* C28: an execution is suspended only by a step of an agent that calls a
\* human-input tool, and the interrupt chunk comes with it; the router node
\* and the steps that call handoff tools or go_back_to_supervisor leave no
\* suspended execution.
C28_SuspensionPoints ==
    [][ /\ (pending'.active /\ pending' # pending)
            => /\ pc = "agent"
               /\ pending'.call.name \in SuspendingToolNames
               /\ chunk'.kind = "interrupt"
        /\ (chunk'.kind = "interrupt" /\ chunk' # chunk)
            => pending'.active /\ pending' # pending
        /\ (pc = "router" /\ pc' # pc) => ~pending'.active
        /\ (pc = "agent" /\ pc' = "chunk" /\ chunk'.kind = "update")
            => ~pending'.active
      ]_vars

\* C28 witness: a case agent, reached by a handoff of the supervisor through
\* the router, has suspended in real_human_agent_execute_actions
C28_Witness ==
    /\ pending.active
    /\ pending.call.name = "real_human_agent_execute_actions"
    /\ pending.node \in CaseAgents
    /\ pc = "chunk"
    /\ chunk.kind = "interrupt"

\* the positions of the persisted messages that hold the human message m
StoredAt(messages, m) ==
    {i \in 1..Len(messages) : messages[i].type = "human" /\ messages[i].id = m.id}

-----------------------------------------------------------------------------
(* Claims on the runner over any chunks (checked under SpecChunks) *)

\* C31: in the metadata of the result made from an interrupt, complete_handoff
\* is true exactly when the user_message of the payload is the sentinel
\* 'Handoff the full conversation to a real agent.', for every payload the
\* runner accepts.
C31_CompleteHandoffFlag ==
    [][(pc = "chunk" /\ chunk.kind = "interrupt" /\ pc' # "idle") =>
          /\ "complete_handoff" \in DOMAIN result'.metadata
          /\ result'.metadata["complete_handoff"] \in BOOLEAN
          /\ result'.metadata["complete_handoff"] =
                (PayloadField(chunk.value, "user_message") =
                    "Handoff the full conversation to a real agent.")]_vars

\* both outcomes of the flag are seen in one run: the sentinel first, then a
\* text that is a prefix of the sentinel
C31_Witness ==
    /\ Len(seen) = 2
    /\ "complete_handoff" \in DOMAIN seen[1].metadata
    /\ "complete_handoff" \in DOMAIN seen[2].metadata
    /\ seen[1].metadata["complete_handoff"] = TRUE
    /\ seen[2].metadata["complete_handoff"] = FALSE
    /\ seen[2].messages[1].content = "Handoff the full conversation"

\* the tool names that start with transfer_to_
HandoffPrefixNames ==
    {"transfer_to_case_a_agent", "transfer_to_case_b_agent",
     "transfer_to_read_erp_info_agent", "transfer_to_knowledge_handler_agent"}

\* the positions of tools_called whose record is reported
ReportedPositions(tc) == {i \in 1..Len(tc) : tc[i].name \notin HandoffPrefixNames}

\* C35: when the runner returns, metadata.tool_calls holds, in the order of
\* tools_called, one entry for each record whose name does not start with
\* transfer_to_ and no other entry; a list with an element that is not a
\* record makes the runner fail with the ValueError.
C35_HandoffsFiltered ==
    [][(pc = "loop" /\ pc' = "idle") =>
          LET tc == result.tools_called
          IN  IF \E i \in 1..Len(tc) : tc[i] = PlainDict
              THEN response' = ErrorResponse("ValueError: Expected ToolMessageInfo object")
              ELSE LET out == response'.metadata["tool_calls"]
                       pos == ReportedPositions(tc)
                   IN  /\ response'.status = "ok"
                       /\ Len(out) = Cardinality(pos)
                       /\ \A i \in pos :
                             LET k == Cardinality({j \in pos : j <= i})
                             IN  out[k] = [tool_name |-> tc[i].name,
                                           tool_input |-> tc[i].parameters,
                                           tool_id |-> tc[i].tool_call_id]
                       /\ \A k \in 1..Len(out) :
                             out[k].tool_name \notin HandoffPrefixNames]_vars

\* the runner returned a result whose tools_called held a handoff between two
\* other records, and reported the two
C35_Witness ==
    /\ pc = "idle"
    /\ response.status = "ok"
    /\ Len(response.metadata["tool_calls"]) = 2
    /\ response.metadata["tool_calls"][1].tool_id = "k1"
    /\ response.metadata["tool_calls"][2].tool_id = "k3"

\* C37: for every chunk of a graph step, one whose update carries no messages
\* included, the runner finds the last message without an error; and when the
\* runner returns, the messages of the result are not empty and the last of
\* them is not a tool message.
C37_RunnerPostcondition ==
    [][ /\ (pc = "chunk" /\ chunk.kind = "update") =>
              /\ response' = response
              /\ pc' # "idle"
        /\ (pc = "loop" /\ pc' = "idle" /\ response'.status = "ok") =>
              /\ result.messages # <<>>
              /\ result.messages[Len(result.messages)].type # "tool" ]_vars

-----------------------------------------------------------------------------
(* Claims on a model that only calls tools (checked under SpecToolsOnly) *)

====
